---------------------------- MODULE Spec2Model ----------------------------
(***************************************************************************)
(* A model of the content-addressed storage and archive helpers of        *)
(* chester84/libtools (file.go): BuildFileHashName, BuildUploadFile-      *)
(* HashName, BuildHashName, ZipDirectory and UnzipAndExtract.             *)
(* Further groups of variables follow the content sniffers, FileDownload,  *)
(* GetS3Key, GitRevParseHead and the date helpers of date.go, and callers  *)
(* that run side by side.                                                  *)
(*                                                                         *)
(* Text (digests, suffixes, paths) is a sequence of one-character         *)
(* strings, so that prefixes, substrings and separators are computed.     *)
(* Byte content is run-length encoded: a sequence of runs [b, n] (n > 0,  *)
(* adjacent runs of different bytes), which stands for exactly one byte   *)
(* string and lets the 8192-byte chunk arithmetic run at its real size.   *)
(***************************************************************************)
EXTENDS Integers, Sequences, FiniteSets, TLC

VARIABLES
    env,            \* GetCurrentEnv(): the environment tag of the process
    subStringMode,  \* how SubString answers an out-of-range request
    op,             \* the operation of the digest/path group in progress or last run
    args,           \* its arguments
    pc,             \* BuildFileHashName's position
    filesize,       \* info.Size()
    blocks,         \* number of loop iterations
    i,              \* loop counter
    offset,         \* read position of the open file
    hash,           \* bytes written to the md5 accumulator so far
    chunks,         \* the blocksize of every iteration so far
    faults,         \* number of reads that did not fill their buffer
    ret,            \* what the operation returned
    calls,          \* how many operations have returned
    srcZipPath,     \* the archive's path: zipFileName / srcZipPath
    sourceDir,      \* ZipDirectory's sourceDir argument
    tree,           \* the directory tree at sourceDir, in filepath.Walk's order
    archive,        \* the zip file: its state and its members in order
    zpc,            \* position of the ZipDirectory / UnzipAndExtract call
    walkPos,        \* index in tree of the node the walk visits next
    walkErr,        \* the error the walk ended with, "nil" when none
    zipRet,         \* what ZipDirectory returned
    destArg,        \* UnzipAndExtract's destDir argument
    destDir,        \* destDir once resolved
    fs0,            \* the file system before UnzipAndExtract ran
    fs,             \* the file system: path -> directory or file with its data
    idx,            \* index of the archive member being extracted
    fpath,          \* filepath.Join(destDir, f.Name) of that member
    handles,        \* the handles UnzipAndExtract holds open
    fsops,          \* every MkdirAll / OpenFile / write UnzipAndExtract performed
    unzipRet,       \* what UnzipAndExtract returned
    local,          \* the zone time.LoadLocation("Local") yields
    tool,           \* the last call of a sniffing, fetch, key or date helper
    tret,           \* what that call returned
    between,        \* GetBetweenDates' locals while its loop runs
    gitRevParseHead, \* var gitRevParseHead: the memoized revision string
    revFile,        \* conf/git-rev-hash as the file system holds it
    revPc,          \* position of the GitRevParseHead call in progress
    revOpened,      \* what the file held when the call in progress opened it
    revCalls,       \* every GitRevParseHead call that returned, in order
    cjob,           \* concurrent callers: the call each goroutine makes
    cfs,            \* concurrent callers: the file system they share
    cpc,            \* concurrent callers: each goroutine's position
    cloc,           \* concurrent callers: each goroutine's local variables
    cret            \* concurrent callers: what each call returned

hashVars == <<env, subStringMode, op, args, pc, filesize, blocks, i, offset,
              hash, chunks, faults, ret, calls>>

zipVars == <<srcZipPath, sourceDir, tree, archive, zpc, walkPos, walkErr, zipRet, destArg, destDir, fs0, fs,
             idx, fpath, handles, fsops, unzipRet>>

toolVars == <<local, tool, tret, between>>

revVars == <<gitRevParseHead, revFile, revPc, revOpened, revCalls>>

concVars == <<cjob, cfs, cpc, cloc, cret>>

(* Everything outside the digest group, and outside the archive group. *)
offHash == <<zipVars, toolVars, concVars, revVars>>

offZip == <<hashVars, toolVars, concVars, revVars>>

vars == <<hashVars, zipVars, toolVars, concVars, revVars>>

-----------------------------------------------------------------------------
(* Bounds of the model. *)

MaxBlocks == 2

MaxCalls == 2

MaxEntries == 3

(* Turns of GetBetweenDates' loop that are followed. *)
MaxDays == 4

(* GitRevParseHead calls that are followed. *)
MaxRevCalls == 3

(* const fileChunk = 8192 *)
fileChunk == 8192

-----------------------------------------------------------------------------
(* Text. *)

Slash == "/"

Dot == "."

NoText == <<>>

(* Byte content, run-length encoded. *)

NoBytes == <<>>

Run(b, n) == IF n > 0 THEN <<[b |-> b, n |-> n]>> ELSE <<>>

RECURSIVE BLen(_)
BLen(r) == IF r = <<>> THEN 0 ELSE r[1].n + BLen(Tail(r))

(* Concatenation, kept canonical: runs of the same byte that meet are merged. *)
BCat(a, c) ==
    IF a = <<>> THEN c
    ELSE IF c = <<>> THEN a
    ELSE IF a[Len(a)].b = c[1].b
         THEN SubSeq(a, 1, Len(a) - 1)
              \o <<[b |-> c[1].b, n |-> a[Len(a)].n + c[1].n]>>
              \o Tail(c)
         ELSE a \o c

RECURSIVE BTake(_, _)
BTake(r, k) ==
    IF k <= 0 \/ r = <<>> THEN <<>>
    ELSE IF r[1].n >= k THEN <<[b |-> r[1].b, n |-> k]>>
    ELSE <<r[1]>> \o BTake(Tail(r), k - r[1].n)

RECURSIVE BDrop(_, _)
BDrop(r, k) ==
    IF k <= 0 \/ r = <<>> THEN r
    ELSE IF r[1].n > k THEN <<[b |-> r[1].b, n |-> r[1].n - k]>> \o Tail(r)
    ELSE BDrop(Tail(r), k - r[1].n)

-----------------------------------------------------------------------------
(* crypto/md5, abstracted: the digest is a function of the whole byte     *)
(* string written, whatever the writes it arrived in, rendered as 32      *)
(* lower-case hex digits (fmt.Sprintf("%x", hash.Sum(nil))).  The mixing  *)
(* function is a stand-in for MD5's; only its being a function of the     *)
(* concatenated bytes is used.                                            *)

HexDigits == <<"0", "1", "2", "3", "4", "5", "6", "7",
               "8", "9", "a", "b", "c", "d", "e", "f">>

Hex4(h) == << HexDigits[((h \div 4096) % 16) + 1], HexDigits[((h \div 256) % 16) + 1],
              HexDigits[((h \div 16) % 16) + 1],   HexDigits[(h % 16) + 1] >>

LanePrimes == <<31, 37, 41, 43, 47, 53, 59, 61>>

RECURSIVE Md5Lane(_, _, _)
Md5Lane(msg, h, p) ==
    IF msg = <<>> THEN h
    ELSE Md5Lane(Tail(msg), (h * p + msg[1].b * 7 + msg[1].n + 1) % 65536, p)

RECURSIVE Md5Lanes(_, _)
Md5Lanes(msg, k) ==
    IF k > Len(LanePrimes) THEN <<>>
    ELSE Hex4(Md5Lane(msg, 4660 + k, LanePrimes[k])) \o Md5Lanes(msg, k + 1)

Md5Hex(msg) == Md5Lanes(msg, 1)

(* Md5Bytes(buf): the hex MD5 of a buffer hashed in one piece. *)
Md5Bytes(buf) == Md5Hex(buf)

-----------------------------------------------------------------------------
(* Helpers of the package that the digest and path operations call. *)

Min(a, c) == IF a <= c THEN a ELSE c

(* strings.Split(s, sep) for a one-character separator. *)
RECURSIVE SplitFrom(_, _, _, _)
SplitFrom(s, sep, k, cur) ==
    IF k > Len(s) THEN <<cur>>
    ELSE IF s[k] = sep THEN <<cur>> \o SplitFrom(s, sep, k + 1, <<>>)
    ELSE SplitFrom(s, sep, k + 1, Append(cur, s[k]))

Split(s, sep) == SplitFrom(s, sep, 1, <<>>)

(* GetFileExt: the text after the last '.', empty when there is no '.'. *)
GetFileExt(filename) ==
    LET exp == Split(filename, Dot)
    IN  IF Len(exp) > 1 THEN exp[Len(exp)] ELSE NoText

(* GetCurrentEnv(): the environment tag, read from the process's configuration. *)
GetCurrentEnv == env

(* What a call yields when it does not return: a run-time panic. *)
Panic == <<"panic">>

(* SubString(str, start, end): the characters str[start:end].  For a      *)
(* request past the end of str the function either answers with what is   *)
(* there or panics; which of the two is fixed per run (subStringMode).    *)
SubString(str, start, end) ==
    IF 0 <= start /\ start <= end /\ end <= Len(str)
    THEN SubSeq(str, start + 1, end)
    ELSE IF subStringMode = "panic" THEN Panic
    ELSE SubSeq(str, Min(start, Len(str)) + 1, Min(end, Len(str)))

(* BuildHashName with the second shard cut one character too long. *)
BuildHashNameLongShard(fileMd5, suffix) ==
    LET a == SubString(fileMd5, 0, 2)
        c == SubString(fileMd5, 2, 5)
        hashDir == GetCurrentEnv \o <<Slash>> \o a \o <<Slash>> \o c
    IN  [panic |-> FALSE, hashDir |-> hashDir,
         hashName |-> hashDir \o <<Slash>> \o fileMd5 \o <<Dot>> \o suffix]

(* BuildHashName: hashDir = env/XX/YY, hashName = hashDir/fileMd5.suffix. *)
BuildHashName(fileMd5, suffix) ==
    LET a == SubString(fileMd5, 0, 2)
        c == SubString(fileMd5, 2, 4)
        hashDir == GetCurrentEnv \o <<Slash>> \o a \o <<Slash>> \o c
    IN  IF a = Panic \/ c = Panic
        THEN [panic |-> TRUE, hashDir |-> NoText, hashName |-> NoText]
        ELSE [panic |-> FALSE, hashDir |-> hashDir,
              hashName |-> hashDir \o <<Slash>> \o fileMd5 \o <<Dot>> \o suffix]

(* The values an operation hands back. *)
Returned(hn, md5, err) ==
    [status |-> IF hn.panic THEN "panic" ELSE "returned",
     hashDir |-> hn.hashDir, hashName |-> hn.hashName,
     fileMd5 |-> IF hn.panic THEN NoText ELSE md5, err |-> err]

NoReturn == [status |-> "none", hashDir |-> NoText, hashName |-> NoText,
             fileMd5 |-> NoText, err |-> "nil"]

-----------------------------------------------------------------------------
(* Inputs. *)

EnvTags == { <<"d", "e", "v">>, <<"p", "r", "o">> }

FileSizes == {0, 1} \cup { k * fileChunk + d : k \in 1..MaxBlocks, d \in {-1, 0, 1} }

(* Files of each size: one byte value throughout, or a different last byte. *)
FileContents ==
    { Run(65, n) : n \in FileSizes }
    \cup { BCat(Run(65, n - 1), Run(66, 1)) : n \in FileSizes \ {0} }

FileNames == { <<"a", ".", "p", "n", "g">>, <<"a">> }

LocalFiles == [name : FileNames, content : FileContents]

Digests == { <<"a", "b", "c", "d", "e", "f", "1", "2", "3", "4">>,
             <<"0", "f", "9", "a">>,
             <<"a", "b", "c">>,
             <<"a">>,
             <<>> }

Suffixes == { <<"p", "n", "g">>, <<".", "p", "n", "g">>, <<>> }

UploadBuffers == { Run(65, 1), Run(65, fileChunk + 1), NoBytes }

-----------------------------------------------------------------------------
(* The digest and path operations. *)

Idle == pc = "idle" /\ calls < MaxCalls

(* The model follows one input through its calls: a later call repeats the *)
(* operation and arguments of the one before it.                           *)
Fresh(o, a) == calls = 0 \/ (op = o /\ args = a)

loopVars == <<filesize, blocks, i, offset, hash, chunks, faults>>

(* BuildHashName(fileMd5, suffix), called directly. *)
BuildHashNameCall ==
    \E d \in Digests, s \in Suffixes :
        LET a == [fileMd5 |-> d, suffix |-> s]
        IN  /\ Idle
            /\ Fresh("BuildHashName", a)
            /\ op' = "BuildHashName"
            /\ args' = a
            /\ ret' = Returned(BuildHashName(d, s), d, "nil")
            /\ calls' = calls + 1
            /\ pc' = IF ret'.status = "panic" THEN "crashed" ELSE "idle"
            /\ UNCHANGED <<offHash, env, subStringMode, loopVars>>

(* BuildUploadFileHashName(buf, suffix): the buffer is hashed in one piece. *)
BuildUploadFileHashNameCall ==
    \E b \in UploadBuffers \cup FileContents, s \in Suffixes :
        LET a == [buf |-> b, suffix |-> s]
            fileMd5 == Md5Bytes(b)
        IN  /\ Idle
            /\ Fresh("BuildUploadFileHashName", a)
            /\ op' = "BuildUploadFileHashName"
            /\ args' = a
            /\ ret' = Returned(BuildHashName(fileMd5, s), fileMd5, "nil")
            /\ calls' = calls + 1
            /\ pc' = "idle"
            /\ UNCHANGED <<offHash, env, subStringMode, loopVars>>

(* BuildFileHashName: os.Open(localFile); on failure the error is returned *)
(* with every other result empty.                                          *)
BuildFileHashNameOpen ==
    \E f \in LocalFiles :
        /\ Idle
        /\ Fresh("BuildFileHashName", f)
        /\ op' = "BuildFileHashName"
        /\ args' = f
        /\ \/ /\ pc' = "opened"
              /\ UNCHANGED <<ret, calls>>
           \/ /\ pc' = "idle"
              /\ ret' = [status |-> "returned", hashDir |-> NoText,
                         hashName |-> NoText, fileMd5 |-> NoText, err |-> "open"]
              /\ calls' = calls + 1
        /\ UNCHANGED <<offHash, env, subStringMode, loopVars>>

(* A block count that rounds down and so drops a last partial block. *)
BlockCountFloor(size) == size \div fileChunk

(* blocks := uint64(math.Ceil(float64(filesize) / float64(fileChunk))) *)
BlockCount(size) == (size + fileChunk - 1) \div fileChunk

(* info, _ := file.Stat(); filesize := info.Size(): a failed Stat leaves   *)
(* info nil and the call panics.                                           *)
BuildFileHashNameStat ==
    /\ pc = "opened"
    /\ \/ /\ filesize' = BLen(args.content)
          /\ blocks' = BlockCount(filesize')
          /\ i' = 0
          /\ offset' = 0
          /\ hash' = NoBytes
          /\ chunks' = <<>>
          /\ faults' = 0
          /\ pc' = "loop"
          /\ UNCHANGED <<ret, calls>>
       \/ /\ pc' = "crashed"
          /\ ret' = [NoReturn EXCEPT !.status = "panic"]
          /\ calls' = calls + 1
          /\ UNCHANGED loopVars
    /\ UNCHANGED <<offHash, env, subStringMode, op, args>>

(* A block size that ignores how much of the file is left. *)
BlockSizeWhole(size, k) == fileChunk

(* blocksize := int(math.Min(fileChunk, float64(filesize-int64(i*fileChunk)))) *)
BlockSize(size, k) == Min(fileChunk, size - k * fileChunk)

(* What file.Read(buf) can deliver into a buffer of blocksize bytes: all  *)
(* of it, half of it (a short read) or nothing (a failed read).           *)
ReadCounts(blocksize) == {blocksize, blocksize \div 2, 0}

(* One iteration: buf := make([]byte, blocksize); _, _ = file.Read(buf);   *)
(* io.WriteString(hash, string(buf)).  The bytes read fill the front of   *)
(* buf, the rest stays zero, and the whole of buf is hashed.              *)
BuildFileHashNameRead ==
    /\ pc = "loop"
    /\ i < blocks
    /\ LET blocksize == BlockSize(filesize, i)
       IN  \E n \in ReadCounts(blocksize) :
               LET left == BLen(args.content) - offset
                   got == Min(n, left)
                   buf == BCat(BTake(BDrop(args.content, offset), got),
                               Run(0, blocksize - got))
               IN  /\ hash' = BCat(hash, buf)
                   /\ offset' = offset + got
                   /\ chunks' = Append(chunks, blocksize)
                   /\ faults' = faults + (IF n < blocksize THEN 1 ELSE 0)
    /\ i' = i + 1
    /\ UNCHANGED <<offHash, env, subStringMode, op, args, pc, filesize, blocks, ret, calls>>

(* After the loop: fileMd5 := fmt.Sprintf("%x", hash.Sum(nil)), the suffix *)
(* from GetFileExt, the names from BuildHashName; err is nil.              *)
BuildFileHashNameReturn ==
    /\ pc = "loop"
    /\ i >= blocks
    /\ LET fileMd5 == Md5Hex(hash)
       IN  ret' = Returned(BuildHashName(fileMd5, GetFileExt(args.name)), fileMd5, "nil")
    /\ calls' = calls + 1
    /\ pc' = "idle"
    /\ UNCHANGED <<offHash, env, subStringMode, op, args, loopVars>>

HashInit ==
    /\ env \in EnvTags
    /\ subStringMode \in {"clamp", "panic"}
    /\ op = "none"
    /\ args = [none |-> TRUE]
    /\ pc = "idle"
    /\ filesize = 0
    /\ blocks = 0
    /\ i = 0
    /\ offset = 0
    /\ hash = NoBytes
    /\ chunks = <<>>
    /\ faults = 0
    /\ ret = NoReturn
    /\ calls = 0

(* The archive group at rest, for the runs that exercise the other group. *)
ZipAtRest ==
    /\ srcZipPath = <<>>
    /\ sourceDir = <<>>
    /\ tree = <<>>
    /\ archive = [state |-> "absent", entries |-> <<>>]
    /\ zpc = "off"
    /\ walkPos = 0
    /\ walkErr = "nil"
    /\ zipRet = "none"
    /\ destArg = <<>>
    /\ destDir = <<>>
    /\ fs0 = <<>>
    /\ fs = <<>>
    /\ idx = 0
    /\ fpath = <<>>
    /\ handles = {}
    /\ fsops = <<>>
    /\ unzipRet = [status |-> "none", dest |-> <<>>, err |-> "nil"]

(* The helpers of file.go and date.go at rest. *)
ToolsAtRest ==
    /\ local = [name |-> <<"U", "T", "C">>, offset |-> 0]
    /\ tool = [op |-> "none"]
    /\ tret = [none |-> TRUE]
    /\ between = [pc |-> "off"]

(* The revision cache at rest. *)
RevAtRest ==
    /\ gitRevParseHead = <<>>
    /\ revFile = [state |-> "missing", content |-> <<>>]
    /\ revPc = "off"
    /\ revOpened = [state |-> "none", content |-> <<>>]
    /\ revCalls = <<>>

(* No concurrent callers. *)
ConcAtRest ==
    /\ cjob = <<>>
    /\ cfs = <<>>
    /\ cpc = <<>>
    /\ cloc = <<>>
    /\ cret = <<>>

HashNext ==
    \/ BuildHashNameCall
    \/ BuildUploadFileHashNameCall
    \/ BuildFileHashNameOpen
    \/ BuildFileHashNameStat
    \/ BuildFileHashNameRead
    \/ BuildFileHashNameReturn

InitHash == HashInit /\ ZipAtRest /\ ToolsAtRest /\ ConcAtRest /\ RevAtRest

SpecHash == InitHash /\ [][HashNext]_vars

-----------------------------------------------------------------------------
(* path/filepath on a system whose separator is '/'.  A path is text; the  *)
(* functions below follow the library's lexical rules.                     *)

HasPrefix(s, prefix) ==
    Len(s) >= Len(prefix) /\ SubSeq(s, 1, Len(prefix)) = prefix

HasSuffix(s, suffix) ==
    Len(s) >= Len(suffix) /\ SubSeq(s, Len(s) - Len(suffix) + 1, Len(s)) = suffix

TrimSuffix(s, suffix) ==
    IF HasSuffix(s, suffix) THEN SubSeq(s, 1, Len(s) - Len(suffix)) ELSE s

RECURSIVE JoinWith(_, _)
JoinWith(segs, sep) ==
    IF segs = <<>> THEN <<>>
    ELSE IF Len(segs) = 1 THEN segs[1]
    ELSE segs[1] \o <<sep>> \o JoinWith(Tail(segs), sep)

IsRooted(path) == path # <<>> /\ path[1] = Slash

DotDot == <<Dot, Dot>>

(* The elements of a path after Clean's rules: empty and "." elements are  *)
(* dropped, ".." removes the element before it, is dropped at the root and *)
(* is kept at the front of a relative path.                                *)
RECURSIVE CleanElems(_, _, _)
CleanElems(segs, rooted, out) ==
    IF segs = <<>> THEN out
    ELSE LET e == segs[1]
             rest == Tail(segs)
         IN  IF e = <<>> \/ e = <<Dot>> THEN CleanElems(rest, rooted, out)
             ELSE IF e = DotDot
                  THEN IF out # <<>> /\ out[Len(out)] # DotDot
                       THEN CleanElems(rest, rooted, SubSeq(out, 1, Len(out) - 1))
                       ELSE IF rooted THEN CleanElems(rest, rooted, out)
                       ELSE CleanElems(rest, rooted, Append(out, e))
                  ELSE CleanElems(rest, rooted, Append(out, e))

(* filepath.Clean *)
Clean(path) ==
    LET elems == CleanElems(Split(path, Slash), IsRooted(path), <<>>)
    IN  IF IsRooted(path) THEN <<Slash>> \o JoinWith(elems, Slash)
        ELSE IF elems = <<>> THEN <<Dot>>
        ELSE JoinWith(elems, Slash)

(* filepath.Join(a, c): empty elements are ignored, the rest joined by the *)
(* separator and cleaned; the empty string when both are empty.            *)
Join(a, c) ==
    IF a = <<>> /\ c = <<>> THEN <<>>
    ELSE IF a = <<>> THEN Clean(c)
    ELSE IF c = <<>> THEN Clean(a)
    ELSE Clean(a \o <<Slash>> \o c)

(* The position of the last separator of a path, 0 when it has none. *)
RECURSIVE LastSlash(_, _)
LastSlash(path, k) ==
    IF k = 0 THEN 0
    ELSE IF path[k] = Slash THEN k
    ELSE LastSlash(path, k - 1)

(* filepath.Dir: everything up to the last separator, cleaned. *)
Dir(path) == Clean(SubSeq(path, 1, LastSlash(path, Len(path))))

RECURSIVE TrimSlashes(_)
TrimSlashes(path) ==
    IF path # <<>> /\ path[Len(path)] = Slash
    THEN TrimSlashes(SubSeq(path, 1, Len(path) - 1))
    ELSE path

(* filepath.Base: the last element, trailing separators removed first. *)
Base(path) ==
    IF path = <<>> THEN <<Dot>>
    ELSE LET t == TrimSlashes(path)
         IN  IF t = <<>> THEN <<Slash>>
             ELSE SubSeq(t, LastSlash(t, Len(t)) + 1, Len(t))

RECURSIVE CommonLen(_, _)
CommonLen(a, c) ==
    IF a # <<>> /\ c # <<>> /\ a[1] = c[1] THEN 1 + CommonLen(Tail(a), Tail(c)) ELSE 0

(* The elements of a cleaned path ("." has none). *)
Elems(cleaned) ==
    LET body == IF IsRooted(cleaned) THEN Tail(cleaned) ELSE cleaned
    IN  IF body = <<>> \/ body = <<Dot>> THEN <<>> ELSE Split(body, Slash)

(* filepath.Rel(basepath, targpath): [ok, path]. *)
Rel(basepath, targpath) ==
    LET base == Clean(basepath)
        targ == Clean(targpath)
        be == Elems(base)
        te == Elems(targ)
        n == CommonLen(be, te)
        bleft == SubSeq(be, n + 1, Len(be))
        tleft == SubSeq(te, n + 1, Len(te))
    IN  IF targ = base THEN [ok |-> TRUE, path |-> <<Dot>>]
        ELSE IF IsRooted(base) # IsRooted(targ) THEN [ok |-> FALSE, path |-> <<>>]
        ELSE IF bleft # <<>> /\ bleft[1] = DotDot THEN [ok |-> FALSE, path |-> <<>>]
        ELSE [ok |-> TRUE,
              path |-> JoinWith([j \in 1..Len(bleft) |-> DotDot] \o tleft, Slash)]

-----------------------------------------------------------------------------
(* The file system: a function from cleaned paths to nodes.  The working  *)
(* directory "." and the root "/" always exist.  File data is a content   *)
(* identifier; Partial(d) is a proper prefix of content d.                *)

DirNode == [kind |-> "dir", data |-> 0]

FileNode(d) == [kind |-> "file", data |-> d]

Partial(d) == 0 - d

AlwaysThere == { <<Dot>>, <<Slash>> }

IsDirAt(f, p) == p \in AlwaysThere \/ (p \in DOMAIN f /\ f[p].kind = "dir")

IsFileAt(f, p) == p \in DOMAIN f /\ f[p].kind = "file"

PathOf(rooted, elems) ==
    IF rooted THEN <<Slash>> \o JoinWith(elems, Slash)
    ELSE IF elems = <<>> THEN <<Dot>>
    ELSE JoinWith(elems, Slash)

(* A cleaned path and every directory above it. *)
Chain(p) ==
    LET e == Elems(p)
    IN  { PathOf(IsRooted(p), SubSeq(e, 1, j)) : j \in 1..Len(e) }

(* os.MkdirAll(p): fails when p or a directory above it is a file;        *)
(* otherwise creates what is missing.                                      *)
MkdirAllOk(f, p) == \A q \in Chain(p) : ~IsFileAt(f, q)

MkdirAll(f, p) ==
    LET new == Chain(p) \ DOMAIN f
    IN  [q \in DOMAIN f \cup new |-> IF q \in new THEN DirNode ELSE f[q]]

(* os.OpenFile(p, O_WRONLY|O_CREATE|O_TRUNC): fails on a directory or     *)
(* under a missing directory; otherwise p is an empty file.                *)
OpenFileOk(f, p) == ~IsDirAt(f, p) /\ IsDirAt(f, Dir(p))

WriteFile(f, p, d) ==
    [q \in DOMAIN f \cup {p} |-> IF q = p THEN FileNode(d) ELSE f[q]]

EmptyFs == [q \in {} |-> DirNode]

(* os.TempDir() *)
TempDir == <<Slash, "t", "m", "p">>

ZipSuffix == <<Dot, "z", "i", "p">>

(* The archive's own path: zipFileName for ZipDirectory, srcZipPath for   *)
(* UnzipAndExtract.                                                        *)
ZipPath == <<"b">> \o ZipSuffix

(* Archive paths that matter when the destination is derived from them:    *)
(* in a directory, without the suffix, with the suffix twice.              *)
ZipPaths ==
    { ZipPath,
      <<"x", Slash>> \o ZipPath,
      <<"b">>,
      <<"c">> \o ZipSuffix \o ZipSuffix }

-----------------------------------------------------------------------------
(* Inputs of the archive operations. *)

Member(name, isDir, data) == [name |-> name, isDir |-> isDir, data |-> data]

(* Members of a hand-made archive: a file, a directory, a file in it, a    *)
(* file aimed at a sibling whose name starts with the destination's name,  *)
(* a file two levels up, an absolute-style name, and a name that resolves  *)
(* to the destination itself.                                              *)
MemberPool ==
    { Member(<<"a">>, FALSE, 1),
      Member(<<"d", Slash>>, TRUE, 0),
      Member(<<"d", Slash, "b">>, FALSE, 2),
      Member(<<Dot, Dot, Slash, "o", "2", Slash, "x">>, FALSE, 3),
      Member(<<Dot, Dot, Slash, Dot, Dot, Slash, "e">>, FALSE, 4),
      Member(<<Slash, "r">>, FALSE, 5),
      Member(<<"d", Slash, Dot, Dot>>, FALSE, 6) }

Archives == UNION { [1..m -> MemberPool] : m \in 0..MaxEntries }

Node(rel, isDir, data) == [rel |-> rel, isDir |-> isDir, data |-> data]

(* Source trees, each listed as filepath.Walk visits it: the root first,   *)
(* then every directory's names in lexical order.                          *)
Trees ==
    { << Node(<<>>, TRUE, 0), Node(<<"a">>, FALSE, 1) >>,
      << Node(<<>>, TRUE, 0), Node(<<"a">>, FALSE, 1), Node(<<"s">>, TRUE, 0),
         Node(<<"s", Slash, "b">>, FALSE, 2) >>,
      << Node(<<>>, TRUE, 0), Node(<<"e">>, TRUE, 0), Node(<<"f">>, FALSE, 3) >> }

(* sourceDir as callers write it: a name, the name with a trailing         *)
(* separator, an absolute path.                                            *)
SourceDirs == { <<"p">>, <<"p", Slash>>, <<Slash, "v", Slash, "p">> }

DestArgs == { <<"o">>, <<"o", Slash>>, <<>> }

(* The file system before extraction: nothing but the temp root, or a      *)
(* destination that already holds a file named d.                          *)
InitialFs(dest) ==
    { MkdirAll(EmptyFs, TempDir) }
    \cup IF dest = <<"o">>
         THEN { WriteFile(MkdirAll(MkdirAll(EmptyFs, TempDir), <<"o">>),
                          <<"o", Slash, "d">>, 9) }
         ELSE {}

-----------------------------------------------------------------------------
(* ZipDirectory(sourceDir, zipFileName). *)

unzipVars == <<destDir, fs, idx, fpath, handles, fsops, unzipRet>>

(* zipFile, err := os.Create(zipFileName); zipWriter := zip.NewWriter(zipFile) *)
ZipDirectoryCreate ==
    /\ zpc = "idle"
    /\ tree # <<>>
    /\ zipRet = "none"
    /\ unzipRet.status = "none"
    /\ \/ /\ archive' = [state |-> "open", entries |-> <<>>]
          /\ zpc' = "zipWalk"
          /\ walkPos' = 1
          /\ UNCHANGED zipRet
       \/ /\ zipRet' = "create"
          /\ UNCHANGED <<archive, zpc, walkPos>>
    /\ UNCHANGED <<offZip, srcZipPath, sourceDir, tree, walkErr, destArg, fs0, unzipVars>>

(* The path filepath.Walk hands to the callback: the root as given, every  *)
(* other node as filepath.Join of its directory and its name.              *)
WalkPath(root, node) == IF node.rel = <<>> THEN root ELSE Join(root, node.rel)

(* A relative path taken against the directory itself. *)
RelPathToSelf(root, path) == Rel(root, path)

(* relPath, err := filepath.Rel(filepath.Dir(sourceDir), path) *)
RelPath(root, path) == Rel(Dir(root), path)

(* info.IsDir() answering false for every node. *)
IsDirNever(node) == FALSE

(* info.IsDir() *)
IsDir(node) == node.isDir

(* A walk that passes over a failed node and goes on with the next one. *)
WalkAfterErrorSkip(pos) == [zpc |-> "zipWalk", walkPos |-> pos + 1]

(* filepath.Walk returns as soon as the callback returns an error: no      *)
(* later node is visited.                                                  *)
WalkAfterError(pos) == [zpc |-> "zipClose", walkPos |-> pos]

(* One call of the walk's callback. *)
ZipDirectoryVisit ==
    /\ zpc = "zipWalk"
    /\ walkPos <= Len(tree)
    /\ LET node == tree[walkPos]
           path == WalkPath(sourceDir, node)
           rel == RelPath(sourceDir, path)
           Stop(e, members) ==
               /\ walkErr' = e
               /\ zpc' = WalkAfterError(walkPos).zpc
               /\ walkPos' = WalkAfterError(walkPos).walkPos
               /\ archive' = [archive EXCEPT !.entries = members]
           Go(members) ==
               /\ walkPos' = walkPos + 1
               /\ archive' = [archive EXCEPT !.entries = members]
               /\ UNCHANGED <<walkErr, zpc>>
       IN  \/ Stop("walk", archive.entries)
           \/ /\ IsDir(node)
              /\ IF rel.ok THEN Go(archive.entries) ELSE Stop("rel", archive.entries)
           \/ /\ ~IsDir(node)
              /\ ~rel.ok
              /\ Stop("rel", archive.entries)
           \/ /\ ~IsDir(node)
              /\ rel.ok
              /\ \/ Stop("open", archive.entries)
                 \/ Stop("create header", archive.entries)
                 \/ Stop("copy", Append(archive.entries,
                                        Member(rel.path, FALSE, Partial(node.data))))
                 \/ Go(Append(archive.entries, Member(rel.path, FALSE, node.data)))
    /\ UNCHANGED <<offZip, srcZipPath, sourceDir, tree, zipRet, destArg, fs0, unzipVars>>

(* The walk is over: the deferred zipWriter.Close() writes the central     *)
(* directory (or fails to), zipFile.Close() follows, and the walk's error  *)
(* is returned.                                                            *)
ZipDirectoryReturn ==
    /\ \/ zpc = "zipClose"
       \/ zpc = "zipWalk" /\ walkPos > Len(tree)
    /\ \/ archive' = [archive EXCEPT !.state = "complete"]
       \/ archive' = [archive EXCEPT !.state = "broken"]
    /\ zipRet' = walkErr
    /\ zpc' = "idle"
    /\ UNCHANGED <<offZip, srcZipPath, sourceDir, tree, walkPos, walkErr, destArg, fs0, unzipVars>>

-----------------------------------------------------------------------------
(* UnzipAndExtract(srcZipPath, destDir). *)

zipSide == <<offZip, srcZipPath, sourceDir, tree, archive, walkPos, walkErr, zipRet, destArg, fs0>>

(* A handle the call holds: the archive reader r (entry 0), the output     *)
(* file or the entry reader of member number entry.                        *)
Handle(kind, entry) == [kind |-> kind, entry |-> entry]

(* A Close() that releases nothing. *)
ClosedNot(h, kind) == h

(* outFile.Close(), rc.Close(), the deferred r.Close(): the handles of     *)
(* that kind are released.                                                 *)
Closed(h, kind) == { x \in h : x.kind # kind }

LogOp(call, path) == Append(fsops, [call |-> call, path |-> path, entry |-> idx])

(* A failure path that tidies up: the file system is put back as it was. *)
UnzipFailRollback(e, f, log, h) ==
    /\ unzipRet' = [status |-> "returned", dest |-> <<>>, err |-> e]
    /\ zpc' = "done"
    /\ handles' = Closed(h, "r")
    /\ fs' = fs0
    /\ fsops' = log
    /\ UNCHANGED <<destDir, idx, fpath>>

(* return "", err with the handles h still held at the return statement:   *)
(* the deferred r.Close() runs and nothing is undone.                      *)
UnzipFail(e, f, log, h) ==
    /\ unzipRet' = [status |-> "returned", dest |-> <<>>, err |-> e]
    /\ zpc' = "done"
    /\ handles' = Closed(h, "r")
    /\ fs' = f
    /\ fsops' = log
    /\ UNCHANGED <<destDir, idx, fpath>>

(* A default destination that keeps the archive's suffix. *)
DefaultDestKeepSuffix(zipPath) == Join(TempDir, Base(zipPath))

(* filepath.Join(os.TempDir(), strings.TrimSuffix(filepath.Base(srcZipPath), ".zip")) *)
DefaultDest(zipPath) == Join(TempDir, TrimSuffix(Base(zipPath), ZipSuffix))

(* The empty destDir is replaced by a directory under the temp root named  *)
(* after the archive; then zip.OpenReader(srcZipPath).                     *)
UnzipOpen ==
    /\ zpc = "idle"
    /\ unzipRet.status = "none"
    /\ destDir' = IF destArg = <<>> THEN DefaultDest(srcZipPath) ELSE destArg
    /\ \/ /\ archive.state = "complete"
          /\ handles' = {Handle("r", 0)}
          /\ idx' = 1
          /\ zpc' = "unzipCheck"
          /\ UNCHANGED <<fs, fpath, fsops, unzipRet>>
       \/ /\ unzipRet' = [status |-> "returned", dest |-> <<>>, err |-> "open archive"]
          /\ zpc' = "done"
          /\ UNCHANGED <<fs, idx, fpath, handles, fsops>>
    /\ UNCHANGED zipSide

(* The traversal check without the separator after the destination. *)
IllegalPathNoSeparator(fp, dest) == ~HasPrefix(fp, Clean(dest))

(* !strings.HasPrefix(fpath, filepath.Clean(destDir)+string(os.PathSeparator)) *)
IllegalPath(fp, dest) == ~HasPrefix(fp, Clean(dest) \o <<Slash>>)

(* Top of the loop body for member idx: fpath := filepath.Join(destDir,   *)
(* f.Name) and the traversal check.                                        *)
UnzipCheck ==
    /\ zpc = "unzipCheck"
    /\ idx <= Len(archive.entries)
    /\ LET f == archive.entries[idx]
           fp == Join(destDir, f.name)
       IN  IF IllegalPath(fp, destDir)
           THEN /\ UnzipFail("illegal file path", fs, fsops, handles)
           ELSE /\ fpath' = fp
                /\ zpc' = IF f.isDir THEN "unzipMkdir" ELSE "unzipMkdirParent"
                /\ UNCHANGED <<destDir, fs, idx, handles, fsops, unzipRet>>
    /\ UNCHANGED zipSide

(* A directory member: os.MkdirAll(fpath, os.ModePerm), then continue. *)
UnzipMkdir ==
    /\ zpc = "unzipMkdir"
    /\ \/ /\ MkdirAllOk(fs, fpath)
          /\ fs' = MkdirAll(fs, fpath)
          /\ fsops' = LogOp("MkdirAll", fpath)
          /\ idx' = idx + 1
          /\ zpc' = "unzipCheck"
          /\ UNCHANGED <<destDir, fpath, handles, unzipRet>>
       \/ UnzipFail("mkdir", fs, LogOp("MkdirAll", fpath), handles)
    /\ UNCHANGED zipSide

(* A file member: os.MkdirAll(filepath.Dir(fpath), os.ModePerm). *)
UnzipMkdirParent ==
    /\ zpc = "unzipMkdirParent"
    /\ \/ /\ MkdirAllOk(fs, Dir(fpath))
          /\ fs' = MkdirAll(fs, Dir(fpath))
          /\ fsops' = LogOp("MkdirAll", Dir(fpath))
          /\ zpc' = "unzipOpenFile"
          /\ UNCHANGED <<destDir, idx, fpath, handles, unzipRet>>
       \/ UnzipFail("mkdir", fs, LogOp("MkdirAll", Dir(fpath)), handles)
    /\ UNCHANGED zipSide

(* outFile, err := os.OpenFile(fpath, O_WRONLY|O_CREATE|O_TRUNC, f.Mode()) *)
UnzipOpenFile ==
    /\ zpc = "unzipOpenFile"
    /\ \/ /\ OpenFileOk(fs, fpath)
          /\ fs' = WriteFile(fs, fpath, 0)
          /\ fsops' = LogOp("OpenFile", fpath)
          /\ handles' = handles \cup {Handle("outFile", idx)}
          /\ zpc' = "unzipEntryOpen"
          /\ UNCHANGED <<destDir, idx, fpath, unzipRet>>
       \/ UnzipFail("open file", fs, LogOp("OpenFile", fpath), handles)
    /\ UNCHANGED zipSide

(* rc, err := f.Open(); on failure outFile is closed before returning. *)
UnzipEntryOpen ==
    /\ zpc = "unzipEntryOpen"
    /\ \/ /\ handles' = handles \cup {Handle("rc", idx)}
          /\ zpc' = "unzipCopy"
          /\ UNCHANGED <<destDir, fs, idx, fpath, fsops, unzipRet>>
       \/ UnzipFail("open entry", fs, fsops, Closed(handles, "outFile"))
    /\ UNCHANGED zipSide

(* _, err = io.Copy(outFile, rc); outFile.Close(); rc.Close(); the error   *)
(* of the copy, if any, is returned.                                       *)
UnzipCopy ==
    /\ zpc = "unzipCopy"
    /\ LET f == archive.entries[idx]
       IN  \/ /\ fs' = WriteFile(fs, fpath, f.data)
              /\ fsops' = LogOp("Write", fpath)
              /\ handles' = Closed(Closed(handles, "outFile"), "rc")
              /\ idx' = idx + 1
              /\ zpc' = "unzipCheck"
              /\ UNCHANGED <<destDir, fpath, unzipRet>>
           \/ UnzipFail("copy", WriteFile(fs, fpath, Partial(f.data)),
                        LogOp("Write", fpath),
                        Closed(Closed(handles, "outFile"), "rc"))
    /\ UNCHANGED zipSide

(* After the last member: return destDir, nil (r.Close() deferred). *)
UnzipReturn ==
    /\ zpc = "unzipCheck"
    /\ idx > Len(archive.entries)
    /\ unzipRet' = [status |-> "returned", dest |-> destDir, err |-> "nil"]
    /\ handles' = Closed(handles, "r")
    /\ zpc' = "done"
    /\ UNCHANGED <<destDir, fs, idx, fpath, fsops>>
    /\ UNCHANGED zipSide

ZipInit ==
    /\ \/ /\ sourceDir = <<>>
          /\ tree = <<>>
          /\ archive \in [state : {"complete"}, entries : Archives]
       \/ /\ sourceDir \in SourceDirs
          /\ tree \in Trees
          /\ archive = [state |-> "absent", entries |-> <<>>]
    /\ zpc = "idle"
    /\ walkPos = 0
    /\ walkErr = "nil"
    /\ zipRet = "none"
    /\ destArg \in DestArgs
    /\ srcZipPath \in IF destArg = <<>> THEN ZipPaths ELSE {ZipPath}
    /\ destDir = <<>>
    /\ fs0 \in InitialFs(destArg)
    /\ fs = fs0
    /\ idx = 0
    /\ fpath = <<>>
    /\ handles = {}
    /\ fsops = <<>>
    /\ unzipRet = [status |-> "none", dest |-> <<>>, err |-> "nil"]

(* The digest group at rest, for the runs that exercise the archive group. *)
HashAtRest ==
    /\ env = <<"d", "e", "v">>
    /\ subStringMode = "clamp"
    /\ op = "none"
    /\ args = [none |-> TRUE]
    /\ pc = "off"
    /\ filesize = 0
    /\ blocks = 0
    /\ i = 0
    /\ offset = 0
    /\ hash = NoBytes
    /\ chunks = <<>>
    /\ faults = 0
    /\ ret = NoReturn
    /\ calls = 0

ZipNext ==
    \/ ZipDirectoryCreate
    \/ ZipDirectoryVisit
    \/ ZipDirectoryReturn
    \/ UnzipOpen
    \/ UnzipCheck
    \/ UnzipMkdir
    \/ UnzipMkdirParent
    \/ UnzipOpenFile
    \/ UnzipEntryOpen
    \/ UnzipCopy
    \/ UnzipReturn

InitZip == ZipInit /\ HashAtRest /\ ToolsAtRest /\ ConcAtRest /\ RevAtRest

SpecZip == InitZip /\ [][ZipNext]_vars

-----------------------------------------------------------------------------
(* Properties of the path deriver and the digest engine (SpecHash). *)

(* A call of the group has returned its results without an error. *)
ReturnedOk == pc = "idle" /\ ret.status = "returned" /\ ret.err = "nil"

StripLeadingDot(s) == IF s # <<>> /\ s[1] = Dot THEN Tail(s) ELSE s

C4_SuffixDotNormalized ==
    (ReturnedOk /\ op \in {"BuildHashName", "BuildUploadFileHashName"}) =>
        ret.hashName = ret.hashDir \o <<Slash>> \o ret.fileMd5 \o <<Dot>>
                       \o StripLeadingDot(args.suffix)

(* C5: a digest of fewer than 4 characters makes the deriver fail with an  *)
(* InvalidDigest error, and no storage key is produced.                    *)
C5_ShortDigestRejected ==
    (op = "BuildHashName" /\ ret.status # "none" /\ Len(args.fileMd5) < 4) =>
        /\ ret.err = "InvalidDigest"
        /\ ret.hashDir = NoText
        /\ ret.hashName = NoText

(* C6: the digest BuildFileHashName computes from a file holding B, fed to *)
(* the hash in 8192-byte chunks that were each read in full, equals the    *)
(* digest of B hashed in one piece (Md5Bytes, as BuildUploadFileHashName   *)
(* computes it), on the first call and on a repeated one.                  *)
C6_DigestIndependentOfChunking ==
    (ReturnedOk /\ op = "BuildFileHashName" /\ faults = 0) =>
        ret.fileMd5 = Md5Bytes(args.content)

C6_Witness ==
    /\ ReturnedOk
    /\ op = "BuildFileHashName"
    /\ calls = 2
    /\ faults = 0
    /\ Len(chunks) >= 2
    /\ Len(args.content) = 2
    /\ filesize % fileChunk # 0
    /\ ret.fileMd5 = Md5Bytes(args.content)

(* ceil(n / fileChunk), found by search instead of by the code's formula. *)
CeilBlocks(n) ==
    CHOOSE k \in 0..(n \div fileChunk + 1) :
        /\ k * fileChunk >= n
        /\ (k = 0 \/ (k - 1) * fileChunk < n)

RECURSIVE SumSeq(_)
SumSeq(q) == IF q = <<>> THEN 0 ELSE q[1] + SumSeq(Tail(q))

(* C7: for a file of N bytes the loop runs ceil(N/8192) times; every chunk *)
(* but the last is 8192 bytes, the last is N mod 8192 (8192 when N is a    *)
(* positive multiple of 8192); no chunk is zero or negative and the chunks *)
(* sum to N; for N = 0 there is no iteration and the digest of the empty   *)
(* input is returned with a nil error.                                     *)
C7_ChunkArithmetic ==
    LET N == BLen(args.content)
    IN  /\ (op = "BuildFileHashName" /\ pc = "loop") =>
               \A j \in 1..Len(chunks) : chunks[j] > 0 /\ chunks[j] <= fileChunk
        /\ (ReturnedOk /\ op = "BuildFileHashName") =>
               /\ Len(chunks) = CeilBlocks(N)
               /\ \A j \in 1..(Len(chunks) - 1) : chunks[j] = fileChunk
               /\ Len(chunks) > 0 =>
                      chunks[Len(chunks)] =
                          IF N % fileChunk = 0 THEN fileChunk ELSE N % fileChunk
               /\ \A j \in 1..Len(chunks) : chunks[j] > 0
               /\ SumSeq(chunks) = N
               /\ N = 0 => (chunks = <<>> /\ ret.fileMd5 = Md5Hex(NoBytes))

C7_Witness ==
    /\ ReturnedOk
    /\ op = "BuildFileHashName"
    /\ BLen(args.content) = 2 * fileChunk + 1
    /\ chunks = <<fileChunk, fileChunk, 1>>

C7_WitnessEmpty ==
    /\ ReturnedOk
    /\ op = "BuildFileHashName"
    /\ BLen(args.content) = 0
    /\ chunks = <<>>

(* C8: when a read of the source fails or comes back short, the call       *)
(* returns a non-nil error and no digest, hashDir or hashName.             *)
C8_ReadFailureSurfaced ==
    (op = "BuildFileHashName" /\ pc = "idle" /\ ret.status = "returned" /\ faults > 0) =>
        /\ ret.err # "nil"
        /\ ret.fileMd5 = NoText
        /\ ret.hashDir = NoText
        /\ ret.hashName = NoText

-----------------------------------------------------------------------------
(* Properties of the archive operations (SpecZip). *)

(* Element by element: p lies below dest, or is dest. *)
AtOrUnder(p, dest) ==
    LET de == Elems(Clean(dest))
        pe == Elems(p)
    IN  /\ IsRooted(p) = IsRooted(Clean(dest))
        /\ Len(pe) >= Len(de)
        /\ SubSeq(pe, 1, Len(de)) = de
        /\ \A j \in (Len(de) + 1)..Len(pe) : pe[j] # DotDot

StrictlyUnder(p, dest) == AtOrUnder(p, dest) /\ Len(Elems(p)) > Len(Elems(Clean(dest)))

UnzipStarted == unzipRet.status = "returned" \/ zpc \notin {"idle", "zipWalk", "zipClose"}

(* The members whose joined path is not strictly below the destination. *)
EscapingMembers ==
    { m \in 1..Len(archive.entries) :
        ~StrictlyUnder(Join(destDir, archive.entries[m].name), destDir) }

LastDataAt(q, n) ==
    LET hits == { m \in 1..(n - 1) : Join(destDir, archive.entries[m].name) = q }
        last == CHOOSE m \in hits : \A m2 \in hits : m2 <= m
    IN  archive.entries[last].data

(* C2: members are extracted in archive order and a failure undoes         *)
(* nothing: when the call fails at member k, every member before k is in   *)
(* place under the destination, nothing that was there before is gone, no  *)
(* member after k was touched, and the call returns an error and no        *)
(* destination.  A file extracted before k holds its member's content      *)
(* unless member k itself lands on the same path.                          *)
C2_NoRollbackInOrder ==
    /\ UnzipStarted =>
           \A j \in 1..(Len(fsops) - 1) : fsops[j].entry <= fsops[j + 1].entry
    /\ (unzipRet.status = "returned" /\ unzipRet.err # "nil" /\ idx >= 1) =>
           /\ \A m \in 1..(idx - 1) :
                  LET f == archive.entries[m]
                      q == Join(destDir, f.name)
                  IN  IF f.isDir THEN IsDirAt(fs, q)
                      ELSE /\ IsFileAt(fs, q)
                           /\ q # Join(destDir, archive.entries[idx].name) =>
                                  fs[q].data = LastDataAt(q, idx)
           /\ \A q \in DOMAIN fs0 : q \in DOMAIN fs
           /\ \A j \in 1..Len(fsops) : fsops[j].entry <= idx
           /\ unzipRet.dest = <<>>

C2_Witness ==
    /\ unzipRet.status = "returned"
    /\ unzipRet.err = "copy"
    /\ idx = 2
    /\ Len(archive.entries) = 3
    /\ archive.entries[1].isDir
    /\ IsDirAt(fs, Join(destDir, archive.entries[1].name))
    /\ fs[fpath].data = Partial(archive.entries[2].data)
    /\ Join(destDir, archive.entries[3].name) \notin DOMAIN fs

(* The archive was written by ZipDirectory from the tree at sourceDir. *)
Packed == tree # <<>> /\ zipRet = "nil" /\ archive.state = "complete"

FileNodes == { n \in 1..Len(tree) : ~tree[n].isDir }

(* base(sourceDir)/<path of the file inside sourceDir> *)
NameUnderBase(n) == Base(sourceDir) \o <<Slash>> \o tree[n].rel

(* C10: every member name ZipDirectory writes is the file's path relative  *)
(* to the parent of sourceDir: it starts with the base name of sourceDir   *)
(* as its first segment, and none is relative to sourceDir itself.         *)
C10_NamesKeepBaseName ==
    tree # <<>> =>
        \A m \in 1..Len(archive.entries) :
            /\ Split(archive.entries[m].name, Slash)[1] = Base(sourceDir)
            /\ \E n \in FileNodes : archive.entries[m].name = NameUnderBase(n)

IOErrors == {"open archive", "mkdir", "open file", "open entry", "copy"}

(* C9: unpacking what ZipDirectory packed, into a fresh destination,       *)
(* succeeds and leaves under the destination exactly the files             *)
(* base(sourceDir)/<path>, each with the original content.                 *)
C9_RoundTrip ==
    (/\ Packed
     /\ fs0 = MkdirAll(EmptyFs, TempDir)
     /\ unzipRet.status = "returned"
     /\ unzipRet.err \notin IOErrors) =>
        /\ unzipRet.err = "nil"
        /\ { q \in DOMAIN fs : fs[q].kind = "file" }
               = { Join(destDir, NameUnderBase(n)) : n \in FileNodes }
        /\ \A n \in FileNodes :
               fs[Join(destDir, NameUnderBase(n))].data = tree[n].data

(* The member name the walk's callback computes for node n of the tree. *)
WalkedName(n) == RelPath(sourceDir, WalkPath(sourceDir, tree[n])).path

MemberNames == { archive.entries[m].name : m \in 1..Len(archive.entries) }

(* C11: ZipDirectory writes one member per regular file of the walk and    *)
(* none for a directory: every member is a file's, no member is a          *)
(* directory's, and once the walk has ended without an error the members   *)
(* are exactly the non-directory paths, one each.                          *)
C11_OneMemberPerFile ==
    tree # <<>> =>
        /\ \A name \in MemberNames : \E n \in FileNodes : name = WalkedName(n)
        /\ \A n \in 1..Len(tree) : tree[n].isDir => WalkedName(n) \notin MemberNames
        /\ zipRet = "nil" =>
               /\ MemberNames = { WalkedName(n) : n \in FileNodes }
               /\ Len(archive.entries) = Cardinality(FileNodes)

(* A tree with a directory that holds no file has been packed. *)
C11_Witness ==
    /\ zipRet = "nil"
    /\ Len(tree) = 3
    /\ tree[2].isDir
    /\ Len(archive.entries) = 1
    /\ archive.entries[1].data = tree[3].data

WalkFailures == {"open", "create header", "copy"}

(* C12: when opening a source file or writing its entry fails, the walk    *)
(* stops at that file: the members are of files up to it, none of a later  *)
(* file, the error is what ZipDirectory returns, and the archive file      *)
(* stays on disk.                                                          *)
C12_WalkStopsAtFailure ==
    (tree # <<>> /\ zipRet \in WalkFailures) =>
        /\ walkPos \in FileNodes
        /\ zipRet = walkErr
        /\ archive.state # "absent"
        /\ \A name \in MemberNames :
               \E n \in FileNodes : n <= walkPos /\ name = WalkedName(n)
        /\ zipRet # "copy" => WalkedName(walkPos) \notin MemberNames
        /\ Len(archive.entries) <= Cardinality({ n \in FileNodes : n <= walkPos })

(* The open of the first of two files failed. *)
C12_Witness ==
    /\ zipRet = "open"
    /\ \E n \in FileNodes : n > walkPos
    /\ archive.entries = <<>>
    /\ archive.state # "absent"

HandlesOf(kind) == { h \in handles : h.kind = kind }

(* C13: when UnzipAndExtract has returned, by whichever path, it holds no  *)
(* open handle; while it runs it holds at most one output file and one     *)
(* entry reader, both of the member in hand.                               *)
C13_HandlesReleased ==
    /\ unzipRet.status = "returned" => handles = {}
    /\ Cardinality(HandlesOf("outFile")) <= 1
    /\ Cardinality(HandlesOf("rc")) <= 1
    /\ Cardinality(HandlesOf("r")) <= 1
    /\ \A h \in handles : h.kind # "r" => h.entry = idx

(* The entry of the second file could not be opened, after its output      *)
(* file had been.                                                          *)
C13_Witness ==
    /\ unzipRet.status = "returned"
    /\ unzipRet.err = "open entry"
    /\ idx >= 2
    /\ IsFileAt(fs, fpath)
    /\ handles = {}

(* The archive's file name without a trailing ".zip". *)
ArchiveStem ==
    LET segs == Split(srcZipPath, Slash)
        name == segs[Len(segs)]
    IN  IF HasSuffix(name, ZipSuffix)
        THEN SubSeq(name, 1, Len(name) - Len(ZipSuffix))
        ELSE name

(* C14: UnzipAndExtract returns the resolved destination with a nil error  *)
(* on success and the empty string with an error on failure; for an empty  *)
(* destDir the resolved destination is the temp root joined with the       *)
(* archive's base name less a trailing ".zip".                             *)
C14_ReturnsResolvedDestination ==
    unzipRet.status = "returned" =>
        IF unzipRet.err = "nil"
        THEN /\ unzipRet.dest # <<>>
             /\ unzipRet.dest = destDir
             /\ destArg # <<>> => unzipRet.dest = destArg
             /\ destArg = <<>> =>
                    unzipRet.dest = TempDir \o <<Slash>> \o ArchiveStem
        ELSE unzipRet.dest = <<>>

(* An archive named c.zip.zip was unpacked with no destination given. *)
C14_Witness ==
    /\ unzipRet.status = "returned"
    /\ unzipRet.err = "nil"
    /\ destArg = <<>>
    /\ srcZipPath = <<"c">> \o ZipSuffix \o ZipSuffix
    /\ unzipRet.dest = TempDir \o <<Slash, "c">> \o ZipSuffix
    /\ Len(archive.entries) > 0

-----------------------------------------------------------------------------
(* The type sniffers of file.go: DetectFileByteType, DetectFileType,       *)
(* GetFileContentType and GetFileExtension.  Buffers are run-length        *)
(* encoded byte strings, as above.                                         *)

RECURSIVE Bytes(_)
(* The byte string with the listed bytes. *)
Bytes(list) == IF list = <<>> THEN NoBytes ELSE BCat(Run(list[1], 1), Bytes(Tail(list)))

HasPrefixBytes(buf, sig) == BLen(buf) >= BLen(sig) /\ BTake(buf, BLen(sig)) = sig

(* types.Type of h2non/filetype: an extension and a MIME value;            *)
(* types.Unknown is NewType("unknown", "").                                *)
Kind(extension, mime) == [extension |-> extension, mime |-> mime]

Unknown == Kind("unknown", "")

(* The matchers of h2non/filetype that the inputs below reach, in the      *)
(* order they are tried: JPEG, PNG, GIF, PDF, ZIP.                         *)
Matchers ==
    << [magic |-> Bytes(<<255, 216, 255>>), kind |-> Kind("jpg", "image/jpeg")],
       [magic |-> Bytes(<<137, 80, 78, 71>>), kind |-> Kind("png", "image/png")],
       [magic |-> Bytes(<<71, 73, 70>>), kind |-> Kind("gif", "image/gif")],
       [magic |-> Bytes(<<37, 80, 68, 70>>), kind |-> Kind("pdf", "application/pdf")],
       [magic |-> Bytes(<<80, 75, 3, 4>>), kind |-> Kind("zip", "application/zip")] >>

MatchingKinds(buf) == { k \in 1..Len(Matchers) : HasPrefixBytes(buf, Matchers[k].magic) }

(* filetype.Match(buf): ErrEmptyBuffer for an empty buffer, the first      *)
(* matcher's type when one matches, types.Unknown with a nil error         *)
(* otherwise.                                                              *)
Match(buf) ==
    IF buf = NoBytes THEN [kind |-> Unknown, err |-> "Empty buffer"]
    ELSE IF MatchingKinds(buf) = {} THEN [kind |-> Unknown, err |-> "nil"]
    ELSE [kind |-> Matchers[CHOOSE k \in MatchingKinds(buf) :
                                \A j \in MatchingKinds(buf) : k <= j].kind,
          err |-> "nil"]

(* DetectFileByteType(buf) (extension, mime string, err error) *)
DetectFileByteType(buf) ==
    LET m == Match(buf)
    IN  IF m.err # "nil"
        THEN [extension |-> "unknown", mime |-> "", err |-> m.err]
        ELSE [extension |-> m.kind.extension, mime |-> m.kind.mime, err |-> "nil"]

(* Contents of the files and buffers handed to the sniffers: empty, one    *)
(* letter, 600 letters, zero bytes, and the starts of a JPEG, a PNG, a     *)
(* GIF, a PDF and a ZIP file.                                              *)
SniffContents ==
    { NoBytes,
      Run(65, 1),
      Run(65, 600),
      Run(0, 4),
      Bytes(<<255, 216, 255, 224>>),
      Bytes(<<137, 80, 78, 71, 13, 10, 26, 10>>),
      Bytes(<<71, 73, 70, 56, 57, 97>>),
      Bytes(<<37, 80, 68, 70, 45, 49>>),
      Bytes(<<80, 75, 3, 4, 20>>) }

toolOff == <<hashVars, zipVars, concVars, revVars, local, between>>

(* The helpers keep no state between calls: a run makes one call. *)
ToolIdle == tool.op = "none"

DetectFileByteTypeCall ==
    /\ ToolIdle
    /\ \E buf \in SniffContents :
           /\ tool' = [op |-> "DetectFileByteType", buf |-> buf]
           /\ tret' = DetectFileByteType(buf)
    /\ UNCHANGED toolOff

(* DetectFileType(filename): ioutil.ReadFile, then DetectFileByteType. *)
DetectFileTypeCall ==
    /\ ToolIdle
    /\ \E buf \in SniffContents, read \in {"nil", "read"} :
           /\ tool' = [op |-> "DetectFileType", buf |-> buf, read |-> read]
           /\ tret' = IF read # "nil"
                      THEN [extension |-> "unknown", mime |-> "", err |-> read]
                      ELSE DetectFileByteType(buf)
    /\ UNCHANGED toolOff

(* The signatures of net/http's DetectContentType that the inputs reach. *)
SniffSignatures ==
    << [magic |-> Bytes(<<37, 80, 68, 70, 45>>), mime |-> "application/pdf"],
       [magic |-> Bytes(<<71, 73, 70, 56, 55, 97>>), mime |-> "image/gif"],
       [magic |-> Bytes(<<71, 73, 70, 56, 57, 97>>), mime |-> "image/gif"],
       [magic |-> Bytes(<<137, 80, 78, 71, 13, 10, 26, 10>>), mime |-> "image/png"],
       [magic |-> Bytes(<<255, 216, 255>>), mime |-> "image/jpeg"],
       [magic |-> Bytes(<<80, 75, 3, 4>>), mime |-> "application/zip"] >>

(* Bytes that net/http takes as a sign of binary data. *)
IsBinaryByte(b) == b <= 8 \/ b = 11 \/ (14 <= b /\ b <= 26) \/ (28 <= b /\ b <= 31)

SniffLen == 512

(* http.DetectContentType(data): the first signature that matches, else    *)
(* text/plain when no byte is binary, else application/octet-stream.       *)
DetectContentType(data) ==
    LET hits == { k \in 1..Len(SniffSignatures) : HasPrefixBytes(data, SniffSignatures[k].magic) }
    IN  IF hits # {}
        THEN SniffSignatures[CHOOSE k \in hits : \A j \in hits : k <= j].mime
        ELSE IF \E r \in 1..Len(data) : IsBinaryByte(data[r].b)
             THEN "application/octet-stream"
             ELSE "text/plain; charset=utf-8"

(* GetFileContentType(out): Read into a 512-byte buffer, which stays       *)
(* zero-filled past what was read; a failed Read, io.EOF on an empty file  *)
(* included, gives "" and the error.                                       *)
GetFileContentType(content, read) ==
    IF read # "nil" THEN [mime |-> "", err |-> read]
    ELSE IF content = NoBytes THEN [mime |-> "", err |-> "EOF"]
    ELSE LET got == BTake(content, SniffLen)
         IN  [mime |-> DetectContentType(BCat(got, Run(0, SniffLen - BLen(got)))),
              err |-> "nil"]

(* The first element of the split name. *)
FirstElem(sArr) == sArr[1]

(* sArr[len(sArr)-1] *)
LastElem(sArr) == sArr[Len(sArr)]

(* GetFileExtension(f, h): the switch on the sniffed content type. *)
GetFileExtension(content, read, filename) ==
    LET ct == GetFileContentType(content, read)
        sArr == Split(filename, Dot)
        contentType ==
            CASE ct.mime = "image/jpeg" -> <<"j", "p", "e", "g">>
              [] ct.mime = "image/png" -> <<"p", "n", "g">>
              [] ct.mime = "image/gif" -> <<"g", "i", "f">>
              [] ct.mime = "application/octet-stream" -> LastElem(sArr)
              [] ct.mime = "application/zip" -> LastElem(sArr)
              [] ct.mime = "application/pdf" -> <<"p", "d", "f">>
              [] OTHER -> NoText
    IN  [ext |-> contentType, mime |-> ct.mime, err |-> ct.err]

UploadNames == { <<"a", ".", "t", "a", "r", ".", "g", "z">>, <<"b", ".", "z", "i", "p">>, <<"c">>, <<".", "d">>, <<"e", ".">> }

GetFileExtensionCall ==
    /\ ToolIdle
    /\ \E content \in SniffContents, read \in {"nil", "read"}, name \in UploadNames :
           /\ tool' = [op |-> "GetFileExtension", content |-> content, read |-> read,
                       filename |-> name]
           /\ tret' = GetFileExtension(content, read, name)
    /\ UNCHANGED toolOff

-----------------------------------------------------------------------------
(* FileDownload and GetS3Key. *)

(* strings.LastIndex(s, sep) for a one-character sep, 0-based; -1 when     *)
(* sep does not occur.                                                     *)
LastIndex(s, sep) ==
    LET at == { k \in 1..Len(s) : s[k] = sep }
    IN  IF at = {} THEN 0 - 1 ELSE (CHOOSE k \in at : \A j \in at : j <= k) - 1

(* FileDownload(fileName, url), given how http.Get, os.Create and io.Copy  *)
(* end: the first two errors are returned, the result of io.Copy is        *)
(* assigned to blanks.  saved tells what the local file holds afterwards.  *)
FileDownload(fileName, get, create, copy) ==
    LET realFileName == <<"/", "t", "m", "p", "/">> \o fileName
    IN  IF get # "nil"
        THEN [realFileName |-> realFileName, err |-> get, saved |-> "none"]
        ELSE IF create # "nil"
        THEN [realFileName |-> realFileName, err |-> create, saved |-> "none"]
        ELSE [realFileName |-> realFileName, err |-> "nil",
              saved |-> IF copy = "nil" THEN "whole" ELSE "partial"]

FileDownloadCall ==
    /\ ToolIdle
    /\ \E name \in UploadNames, get \in {"nil", "get"}, create \in {"nil", "create"},
          copy \in {"nil", "copy"} :
           /\ tool' = [op |-> "FileDownload", fileName |-> name, get |-> get,
                       create |-> create, copy |-> copy]
           /\ tret' = FileDownload(name, get, create, copy)
    /\ UNCHANGED toolOff

(* GetS3Key(fileName): the error of ioutil.ReadFile is assigned to a       *)
(* blank, so a file that cannot be opened is hashed as no bytes.           *)
GetS3Key(fileName, content, read) ==
    LET fileBytes == IF read = "nil" THEN content ELSE NoBytes
        fileMd5 == Md5Bytes(fileBytes)
        index == LastIndex(fileName, Dot)
        extension == SubSeq(fileName, index + 2, Len(fileName))
    IN  BuildHashName(fileMd5, extension).hashName

GetS3KeyCall ==
    /\ ToolIdle
    /\ \E name \in UploadNames, content \in SniffContents, read \in {"nil", "open"} :
           /\ tool' = [op |-> "GetS3Key", fileName |-> name, content |-> content,
                       read |-> read]
           /\ tret' = [key |-> GetS3Key(name, content, read)]
    /\ UNCHANGED toolOff

-----------------------------------------------------------------------------
(* date.go: UnixMsec2Date and Date2UnixMsec.                               *)
(*                                                                         *)
(* A time is a day number and a second of that day (day 0 is 1970-01-01,   *)
(* seconds since the epoch = day * 86400 + sod), so that times beyond      *)
(* 2038 are computed without leaving the checker's integers.  An int64     *)
(* count of milliseconds is a sign, a day, a second of the day and a       *)
(* millisecond: [neg, day, sod, ms] stands for                             *)
(* +/- ((day * 86400 + sod) * 1000 + ms).                                  *)

SecondsPerDay == 86400

Msec(neg, day, sod, ms) == [neg |-> neg, day |-> day, sod |-> sod, ms |-> ms]

MsecZero == Msec(FALSE, 0, 0, 0)

(* The proleptic Gregorian calendar of package time: the civil date of a   *)
(* day number (day >= -719468) and back.                                   *)
CivilFromDays(day) ==
    LET z == day + 719468
        era == z \div 146097
        doe == z - era * 146097
        yoe == (doe - doe \div 1460 + doe \div 36524 - doe \div 146096) \div 365
        doy == doe - (365 * yoe + yoe \div 4 - yoe \div 100)
        mp == (5 * doy + 2) \div 153
        d == doy - (153 * mp + 2) \div 5 + 1
        m == IF mp < 10 THEN mp + 3 ELSE mp - 9
    IN  [year |-> yoe + era * 400 + (IF m <= 2 THEN 1 ELSE 0), month |-> m, day |-> d]

DaysFromCivil(year, month, d) ==
    LET y == IF month <= 2 THEN year - 1 ELSE year
        era == y \div 400
        yoe == y - era * 400
        doy == (153 * (IF month > 2 THEN month - 3 ELSE month + 9) + 2) \div 5 + d - 1
        doe == yoe * 365 + yoe \div 4 - yoe \div 100 + doy
    IN  era * 146097 + doe - 719468

IsLeap(year) == year % 4 = 0 /\ (year % 100 # 0 \/ year % 400 = 0)

DaysIn(month, year) ==
    IF month = 2 THEN (IF IsLeap(year) THEN 29 ELSE 28)
    ELSE IF month \in {4, 6, 9, 11} THEN 30 ELSE 31

(* time.Weekday of a day number, Sunday = 0; 1970-01-01 was a Thursday. *)
Weekday(day) == (day + 4) % 7

LongDayNames ==
    << <<"S", "u", "n", "d", "a", "y">>, <<"M", "o", "n", "d", "a", "y">>, <<"T", "u", "e", "s", "d", "a", "y">>, <<"W", "e", "d", "n", "e", "s", "d", "a", "y">>, <<"T", "h", "u", "r", "s", "d", "a", "y">>, <<"F", "r", "i", "d", "a", "y">>,
       <<"S", "a", "t", "u", "r", "d", "a", "y">> >>

ShortMonthNames ==
    << <<"J", "a", "n">>, <<"F", "e", "b">>, <<"M", "a", "r">>, <<"A", "p", "r">>, <<"M", "a", "y">>, <<"J", "u", "n">>, <<"J", "u", "l">>, <<"A", "u", "g">>, <<"S", "e", "p">>,
       <<"O", "c", "t">>, <<"N", "o", "v">>, <<"D", "e", "c">> >>

DigitChars == <<"0", "1", "2", "3", "4", "5", "6", "7", "8", "9">>

RECURSIVE Itoa(_)
(* The decimal digits of n >= 0. *)
Itoa(n) == IF n < 10 THEN <<DigitChars[n + 1]>> ELSE Itoa(n \div 10) \o <<DigitChars[(n % 10) + 1]>>

RECURSIVE ZeroPad(_, _)
(* appendInt(b, n, width): at least width digits. *)
ZeroPad(text, width) == IF Len(text) >= width THEN text ELSE ZeroPad(<<"0">> \o text, width)

AppendInt(n, width) == ZeroPad(Itoa(n), width)

(* var find, replace: the layout alphabet and its Go reference layouts, in *)
(* the order the loop applies them.                                        *)
find == <<"a", "M", "n", "d", "D", "l", "j", "m", "Y", "y", "H", "i", "s", "e">>

replace ==
    << <<"3", ":", "0", "4", "P", "M">>, <<"J", "a", "n">>, <<"1">>, <<"0", "2">>, <<"M", "o", "n">>, <<"M", "o", "n", "d", "a", "y">>, <<"2">>, <<"0", "1">>, <<"2", "0", "0", "6">>, <<"0", "6">>,
       <<"1", "5">>, <<"0", "4">>, <<"0", "5">>, <<"M", "S", "T">> >>

RECURSIVE StringsReplace(_, _, _)
(* strings.Replace(s, old, new, -1) for a one-character old. *)
StringsReplace(s, old, new) ==
    IF s = <<>> THEN <<>>
    ELSE (IF s[1] = old THEN new ELSE <<s[1]>>) \o StringsReplace(Tail(s), old, new)

RECURSIVE ReplaceFrom(_, _)
(* for i, f := range find { layout = strings.Replace(layout, f, replace[i], -1) } *)
ReplaceFrom(layout, k) ==
    IF k > Len(find) THEN layout
    ELSE ReplaceFrom(StringsReplace(layout, find[k], replace[k]), k + 1)

(* The layout as the loop over find leaves it. *)
GoLayout(layout) == ReplaceFrom(layout, 1)

StartsAt(s, k, word) == Len(s) >= k + Len(word) - 1 /\ SubSeq(s, k, k + Len(word) - 1) = word

Chunk(std, len) == [std |-> std, len |-> len]

(* nextStdChunk of package time for the characters the layouts here are    *)
(* made of: what the layout holds at position k, a reference element or    *)
(* one literal character.  (Zone offsets, "_2", "January" and fractional   *)
(* seconds do not occur in these layouts.)                                 *)
StdAt(layout, k) ==
    LET c == layout[k]
    IN  CASE c = "J" /\ StartsAt(layout, k, <<"J", "a", "n">>) -> Chunk("stdMonth", 3)
          [] c = "M" /\ StartsAt(layout, k, <<"M", "o", "n", "d", "a", "y">>) -> Chunk("stdLongWeekDay", 6)
          [] c = "M" /\ StartsAt(layout, k, <<"M", "o", "n">>) -> Chunk("stdWeekDay", 3)
          [] c = "M" /\ StartsAt(layout, k, <<"M", "S", "T">>) -> Chunk("stdTZ", 3)
          [] c = "0" /\ StartsAt(layout, k, <<"0", "1">>) -> Chunk("stdZeroMonth", 2)
          [] c = "0" /\ StartsAt(layout, k, <<"0", "2">>) -> Chunk("stdZeroDay", 2)
          [] c = "0" /\ StartsAt(layout, k, <<"0", "3">>) -> Chunk("stdZeroHour12", 2)
          [] c = "0" /\ StartsAt(layout, k, <<"0", "4">>) -> Chunk("stdZeroMinute", 2)
          [] c = "0" /\ StartsAt(layout, k, <<"0", "5">>) -> Chunk("stdZeroSecond", 2)
          [] c = "0" /\ StartsAt(layout, k, <<"0", "6">>) -> Chunk("stdYear", 2)
          [] c = "1" /\ StartsAt(layout, k, <<"1", "5">>) -> Chunk("stdHour", 2)
          [] c = "1" /\ ~StartsAt(layout, k, <<"1", "5">>) -> Chunk("stdNumMonth", 1)
          [] c = "2" /\ StartsAt(layout, k, <<"2", "0", "0", "6">>) -> Chunk("stdLongYear", 4)
          [] c = "2" /\ ~StartsAt(layout, k, <<"2", "0", "0", "6">>) -> Chunk("stdDay", 1)
          [] c = "3" -> Chunk("stdHour12", 1)
          [] c = "4" -> Chunk("stdMinute", 1)
          [] c = "5" -> Chunk("stdSecond", 1)
          [] c = "P" /\ StartsAt(layout, k, <<"P", "M">>) -> Chunk("stdPM", 2)
          [] OTHER -> Chunk("literal", 1)

(* A wall-clock time in a zone: the civil date and time of day of day      *)
(* number day and second sod, which are already shifted by the zone's      *)
(* offset.                                                                 *)
WallClock(day, sod, zone) ==
    LET civil == CivilFromDays(day)
    IN  [year |-> civil.year, month |-> civil.month, day |-> civil.day,
         hour |-> sod \div 3600, min |-> (sod % 3600) \div 60, sec |-> sod % 60,
         weekday |-> Weekday(day), zone |-> zone.name]

(* What Time.Format writes for one reference element. *)
FormatStd(std, t) ==
    CASE std = "stdMonth" -> ShortMonthNames[t.month]
      [] std = "stdLongWeekDay" -> LongDayNames[t.weekday + 1]
      [] std = "stdWeekDay" -> SubSeq(LongDayNames[t.weekday + 1], 1, 3)
      [] std = "stdTZ" -> t.zone
      [] std = "stdZeroMonth" -> AppendInt(t.month, 2)
      [] std = "stdZeroDay" -> AppendInt(t.day, 2)
      [] std = "stdZeroHour12" -> AppendInt(IF t.hour % 12 = 0 THEN 12 ELSE t.hour % 12, 2)
      [] std = "stdZeroMinute" -> AppendInt(t.min, 2)
      [] std = "stdZeroSecond" -> AppendInt(t.sec, 2)
      [] std = "stdYear" -> AppendInt(t.year % 100, 2)
      [] std = "stdHour" -> AppendInt(t.hour, 2)
      [] std = "stdNumMonth" -> AppendInt(t.month, 0)
      [] std = "stdLongYear" -> AppendInt(t.year, 4)
      [] std = "stdDay" -> AppendInt(t.day, 0)
      [] std = "stdHour12" -> AppendInt(IF t.hour % 12 = 0 THEN 12 ELSE t.hour % 12, 0)
      [] std = "stdMinute" -> AppendInt(t.min, 0)
      [] std = "stdSecond" -> AppendInt(t.sec, 0)
      [] std = "stdPM" -> IF t.hour >= 12 THEN <<"P", "M">> ELSE <<"A", "M">>

RECURSIVE FormatFrom(_, _, _)
FormatFrom(layout, k, t) ==
    IF k > Len(layout) THEN <<>>
    ELSE LET chunk == StdAt(layout, k)
         IN  (IF chunk.std = "literal" THEN <<layout[k]>> ELSE FormatStd(chunk.std, t))
             \o FormatFrom(layout, k + chunk.len, t)

(* tm.In(local).Format(layout) *)
Format(day, sod, zone, layout) ==
    LET shifted == sod + zone.offset
        lday == day + shifted \div SecondsPerDay
        lsod == shifted % SecondsPerDay
    IN  FormatFrom(layout, 1, WallClock(lday, lsod, zone))

(* UnixMsec2Date(um, layout): "-" when um / 1000 <= 0 (the division        *)
(* truncates toward zero), else the time formatted in the local zone by    *)
(* the rewritten layout.                                                   *)
UnixMsec2Date(um, layout, zone) ==
    IF um.neg \/ (um.day = 0 /\ um.sod = 0) THEN <<"-">>
    ELSE Format(um.day, um.sod, zone, GoLayout(layout))

IsDigitAt(s, j) == j <= Len(s) /\ \E d \in 1..10 : DigitChars[d] = s[j]

DigitVal(c) == (CHOOSE d \in 1..10 : DigitChars[d] = c) - 1

NoNum == [ok |-> FALSE, n |-> 0, rest |-> <<>>]

(* getnum(s, fixed): one or two digits, two when fixed. *)
GetNum(s, fixed) ==
    IF ~IsDigitAt(s, 1) THEN NoNum
    ELSE IF ~IsDigitAt(s, 2)
         THEN (IF fixed THEN NoNum
               ELSE [ok |-> TRUE, n |-> DigitVal(s[1]), rest |-> Tail(s)])
         ELSE [ok |-> TRUE, n |-> 10 * DigitVal(s[1]) + DigitVal(s[2]),
               rest |-> SubSeq(s, 3, Len(s))]

(* The four digits of a stdLongYear. *)
GetYear(s) ==
    IF \A j \in 1..4 : IsDigitAt(s, j)
    THEN [ok |-> TRUE,
          n |-> 1000 * DigitVal(s[1]) + 100 * DigitVal(s[2]) + 10 * DigitVal(s[3])
                + DigitVal(s[4]),
          rest |-> SubSeq(s, 5, Len(s))]
    ELSE NoNum

(* What time.Parse starts from: year 0, month and day unset, midnight. *)
NoFields == [year |-> 0, month |-> 0 - 1, day |-> 0 - 1, hour |-> 0, min |-> 0, sec |-> 0]

(* time.Parse on one reference element: the number read and its range     *)
(* check where Parse checks at once.  Only the numeric elements are        *)
(* parsed here; the layouts handed to Date2UnixMsec below hold no others.  *)
ParseStd(std, value, f) ==
    LET num == CASE std = "stdLongYear" -> GetYear(value)
                 [] std \in {"stdZeroMonth", "stdZeroDay", "stdZeroMinute", "stdZeroSecond"} ->
                        GetNum(value, TRUE)
                 [] std \in {"stdNumMonth", "stdDay", "stdHour"} -> GetNum(value, FALSE)
        ok == /\ num.ok
              /\ std \in {"stdZeroMonth", "stdNumMonth"} => (1 <= num.n /\ num.n <= 12)
              /\ std = "stdHour" => num.n < 24
              /\ std \in {"stdZeroMinute", "stdZeroSecond"} => num.n < 60
        g == CASE std = "stdLongYear" -> [f EXCEPT !.year = num.n]
               [] std \in {"stdZeroMonth", "stdNumMonth"} -> [f EXCEPT !.month = num.n]
               [] std \in {"stdZeroDay", "stdDay"} -> [f EXCEPT !.day = num.n]
               [] std = "stdHour" -> [f EXCEPT !.hour = num.n]
               [] std = "stdZeroMinute" -> [f EXCEPT !.min = num.n]
               [] std = "stdZeroSecond" -> [f EXCEPT !.sec = num.n]
    IN  IF ok THEN [ok |-> TRUE, rest |-> num.rest, f |-> g]
        ELSE [ok |-> FALSE, rest |-> <<>>, f |-> f]

RECURSIVE ParseFrom(_, _, _, _)
(* time.Parse walking the layout: literal text has to be there, each       *)
(* reference element is read, nothing may be left over, and the day has    *)
(* to exist in its month.                                                  *)
ParseFrom(layout, k, value, f) ==
    IF k > Len(layout)
    THEN LET month == IF f.month = 0 - 1 THEN 1 ELSE f.month
             day == IF f.day = 0 - 1 THEN 1 ELSE f.day
         IN  [ok |-> value = <<>> /\ day >= 1 /\ day <= DaysIn(month, f.year),
              f |-> [f EXCEPT !.month = month, !.day = day]]
    ELSE LET chunk == StdAt(layout, k)
         IN  IF chunk.std = "literal"
             THEN (IF value # <<>> /\ value[1] = layout[k]
                   THEN ParseFrom(layout, k + 1, Tail(value), f)
                   ELSE [ok |-> FALSE, f |-> f])
             ELSE LET r == ParseStd(chunk.std, value, f)
                  IN  IF r.ok THEN ParseFrom(layout, k + chunk.len, r.rest, r.f)
                      ELSE [ok |-> FALSE, f |-> f]

(* The last second whose count of nanoseconds fits an int64:               *)
(* 9223372036 = MaxNanoDay * 86400 + MaxNanoSod.                           *)
MaxNanoDay == 106751

MaxNanoSod == 85636

(* 2^64 nanoseconds are 18446744073 seconds and 709551616 nanoseconds:     *)
(* 18446744073 = WrapDay * 86400 + WrapSod, and 709 whole milliseconds.    *)
WrapDay == 213503

WrapSod == 84873

WrapMs == 709

(* parse.UnixNano() / 1000000 for the time day, sod (from 1970 on, below   *)
(* 2^64 ns): the seconds times 1e9 in an int64, which wraps past           *)
(* MaxNano to sec * 1e9 - 2^64, a negative number; the division truncates  *)
(* toward zero.                                                            *)
UnixNanoMsec(day, sod) ==
    CASE day >= 0 /\ (day < MaxNanoDay \/ (day = MaxNanoDay /\ sod <= MaxNanoSod)) ->
             Msec(FALSE, day, sod, 0)
      [] (day > MaxNanoDay \/ (day = MaxNanoDay /\ sod > MaxNanoSod)) /\ day < WrapDay ->
             IF sod <= WrapSod
             THEN Msec(TRUE, WrapDay - day, WrapSod - sod, WrapMs)
             ELSE Msec(TRUE, WrapDay - day - 1, WrapSod + SecondsPerDay - sod, WrapMs)

(* Date2UnixMsec(dateStr, layout): 0 for "" and for what does not parse,   *)
(* else the parsed wall-clock time of the local zone in milliseconds.      *)
Date2UnixMsec(dateStr, layout, zone) ==
    IF dateStr = <<>> THEN MsecZero
    ELSE LET p == ParseFrom(GoLayout(layout), 1, dateStr, NoFields)
             lday == DaysFromCivil(p.f.year, p.f.month, p.f.day)
             lsod == p.f.hour * 3600 + p.f.min * 60 + p.f.sec
             shifted == lsod - zone.offset
         IN  IF ~p.ok THEN MsecZero
             ELSE UnixNanoMsec(lday + shifted \div SecondsPerDay, shifted % SecondsPerDay)

(* The zones "Local" stands for in the runs: UTC and China Standard Time. *)
Zones == { [name |-> <<"U", "T", "C">>, offset |-> 0], [name |-> <<"C", "S", "T">>, offset |-> 28800] }

(* Millisecond timestamps: 0, 999, -5000, 1000, the README's               *)
(* 1664182378999, the last half second of 2024-02-29, the last timestamp   *)
(* whose nanoseconds fit an int64 and the second after it, 2300-01-01 and  *)
(* 10000-01-01.                                                            *)
Stamps ==
    { Msec(FALSE, 0, 0, 0),
      Msec(FALSE, 0, 0, 999),
      Msec(TRUE, 0, 5, 0),
      Msec(FALSE, 0, 1, 0),
      Msec(FALSE, 19261, 31978, 999),
      Msec(FALSE, 19782, 86399, 500),
      Msec(FALSE, MaxNanoDay, MaxNanoSod, 854),
      Msec(FALSE, MaxNanoDay, MaxNanoSod + 1, 0),
      Msec(FALSE, 120530, 0, 0),
      Msec(FALSE, 2932897, 0, 0) }

(* "Y-m-d H:i:s" *)
DateTimeLayout == <<"Y", "-", "m", "-", "d", " ", "H", ":", "i", ":", "s">>

DateLayout == <<"Y", "-", "m", "-", "d">>

(* Layouts handed to UnixMsec2Date: every letter of the alphabet on its    *)
(* own, and the two usual ones.                                            *)
Layouts == { <<find[k]>> : k \in 1..Len(find) } \cup { DateTimeLayout, DateLayout }

(* Strings handed to Date2UnixMsec: what UnixMsec2Date wrote, the empty    *)
(* string, and strings that are no date.                                   *)
DateStrs ==
    { UnixMsec2Date(um, DateTimeLayout, local) : um \in Stamps }
    \cup { <<>>, <<"t", "o", "m", "o", "r", "r", "o", "w">>, <<"2", "0", "2", "2", "-", "1", "3", "-", "0", "1", " ", "0", "0", ":", "0", "0", ":", "0", "0">>, <<"2", "0", "2", "3", "-", "0", "2", "-", "2", "9", " ", "0", "0", ":", "0", "0", ":", "0", "0">> }

(* tret.layout is the layout variable as the call leaves it. *)
UnixMsec2DateCall ==
    /\ ToolIdle
    /\ \E um \in Stamps, layout \in Layouts :
           /\ tool' = [op |-> "UnixMsec2Date", um |-> um, layout |-> layout]
           /\ tret' = [str |-> UnixMsec2Date(um, layout, local),
                       layout |-> IF um.neg \/ (um.day = 0 /\ um.sod = 0)
                                  THEN layout
                                  ELSE GoLayout(layout)]
    /\ UNCHANGED toolOff

Date2UnixMsecCall ==
    /\ ToolIdle
    /\ \E dateStr \in DateStrs, layout \in {DateTimeLayout, DateLayout} :
           /\ tool' = [op |-> "Date2UnixMsec", dateStr |-> dateStr, layout |-> layout]
           /\ tret' = [ms |-> Date2UnixMsec(dateStr, layout, local),
                       layout |-> IF dateStr = <<>> THEN layout ELSE GoLayout(layout)]
    /\ UNCHANGED toolOff

-----------------------------------------------------------------------------
(* date.go: GetBetweenDates.                                               *)

UTC == [name |-> <<"U", "T", "C">>, offset |-> 0]

(* timeFormatTpl := "2006-01-02 15:04:05" *)
TimeFormatTpl == <<"2", "0", "0", "6", "-", "0", "1", "-", "0", "2", " ", "1", "5", ":", "0", "4", ":", "0", "5">>

(* timeFormatTpl = "2006-01-02" *)
DayFormatTpl == <<"2", "0", "0", "6", "-", "0", "1", "-", "0", "2">>

(* s[0:n] of a string: a run-time panic when n is past the end of s. *)
SliceTo(s, n) == IF n > Len(s) THEN Panic ELSE SubSeq(s, 1, n)

(* time.Parse(layout, value): a time in UTC, as a day number and a second  *)
(* of that day.                                                            *)
Parse(layout, value) ==
    LET p == ParseFrom(layout, 1, value, NoFields)
    IN  IF p.ok
        THEN [ok |-> TRUE, day |-> DaysFromCivil(p.f.year, p.f.month, p.f.day),
              sod |-> p.f.hour * 3600 + p.f.min * 60 + p.f.sec]
        ELSE [ok |-> FALSE, day |-> 0, sod |-> 0]

(* t.Before(u) *)
Before(t, u) == t.day < u.day \/ (t.day = u.day /\ t.sod < u.sod)

(* t.AddDate(years, months, days) of a time in UTC: the civil date is      *)
(* moved and normalized, the time of day is kept.                          *)
AddDate(t, years, months, days) ==
    LET c == CivilFromDays(t.day)
        m == c.month - 1 + months
        year == c.year + years + (IF m >= 0 THEN m \div 12 ELSE 0 - ((11 - m) \div 12))
        month == (m % 12) + 1
    IN  [t EXCEPT !.day = DaysFromCivil(year, month, 1) + c.day - 1 + days]

(* date.Format("2006-01-02") *)
FormatDay(t) == Format(t.day, t.sod, UTC, DayFormatTpl)

(* if len(timeFormatTpl) != len(sdate) { timeFormatTpl = timeFormatTpl[0:len(sdate)] } *)
LayoutFor(sdate) ==
    IF Len(TimeFormatTpl) # Len(sdate) THEN SliceTo(TimeFormatTpl, Len(sdate))
    ELSE TimeFormatTpl

(* GetBetweenDates(sdate, edate) up to its loop, given the layout cut to   *)
(* len(sdate) and the two dates as time.Parse read them with it: a date    *)
(* that does not parse and an end before the start return the empty list,  *)
(* else the start date is appended and the loop is entered.                *)
GetBetweenDatesStart(timeFormatTpl, date, date2) ==
    IF timeFormatTpl = Panic THEN [pc |-> "panic", d |-> <<>>]
    ELSE IF ~date.ok THEN [pc |-> "returned", d |-> <<>>]
    ELSE IF ~date2.ok THEN [pc |-> "returned", d |-> <<>>]
    ELSE IF Before(date2, date) THEN [pc |-> "returned", d |-> <<>>]
    ELSE [pc |-> "loop", d |-> <<FormatDay(date)>>,
          date |-> [day |-> date.day, sod |-> date.sod],
          date2Str |-> FormatDay(date2)]

(* The dates handed to GetBetweenDates: days around the end of February    *)
(* 2024, a day that does not exist, a word, dates with a time of day, and  *)
(* a string longer than the layout.                                        *)
BetweenDates ==
    { <<"2", "0", "2", "4", "-", "0", "2", "-", "2", "8">>, <<"2", "0", "2", "4", "-", "0", "2", "-", "2", "9">>, <<"2", "0", "2", "4", "-", "0", "3", "-", "0", "1">>, <<"2", "0", "2", "4", "-", "0", "2", "-", "3", "0">>, <<"t", "o", "m", "o", "r", "r", "o", "w">>,
      <<"2", "0", "2", "4", "-", "0", "2", "-", "2", "8", " ", "1", "0", ":", "0", "0", ":", "0", "0">>, <<"2", "0", "2", "4", "-", "0", "2", "-", "2", "9", " ", "0", "9", ":", "0", "0", ":", "0", "0">>, <<"2", "0", "2", "4", "-", "0", "2", "-", "2", "8", " ", "1", "0", ":", "0", "0", ":", "0", "0", "Z">> }

GetBetweenDatesCall ==
    /\ ToolIdle
    /\ \E sdate \in BetweenDates, edate \in BetweenDates :
       \E timeFormatTpl \in {LayoutFor(sdate)} :
       \E date \in {Parse(timeFormatTpl, sdate)}, date2 \in {Parse(timeFormatTpl, edate)} :
       \E r \in {GetBetweenDatesStart(timeFormatTpl, date, date2)} :
           /\ tool' = [op |-> "GetBetweenDates", sdate |-> sdate, edate |-> edate]
           /\ between' = r
           /\ tret' = IF r.pc = "loop" THEN tret ELSE [status |-> r.pc, d |-> r.d]
    /\ UNCHANGED <<hashVars, zipVars, concVars, revVars, local>>

(* One turn of the for loop: the next day is appended, and the loop breaks *)
(* when that day's text is date2Str.                                       *)
GetBetweenDatesLoop ==
    /\ between.pc = "loop"
    /\ Len(between.d) < MaxDays
    /\ \E date \in {AddDate(between.date, 0, 0, 1)} :
       \E dateStr \in {FormatDay(date)} :
       \E d \in {Append(between.d, dateStr)} :
           IF dateStr = between.date2Str
           THEN /\ between' = [pc |-> "returned", d |-> d]
                /\ tret' = [status |-> "returned", d |-> d]
           ELSE /\ between' = [between EXCEPT !.date = date, !.d = d]
                /\ UNCHANGED tret
    /\ UNCHANGED <<hashVars, zipVars, concVars, revVars, local, tool>>

ToolsInit ==
    /\ local \in Zones
    /\ tool = [op |-> "none"]
    /\ tret = [none |-> TRUE]
    /\ between = [pc |-> "off"]

ToolsNext ==
    \/ DetectFileByteTypeCall
    \/ DetectFileTypeCall
    \/ GetFileExtensionCall
    \/ FileDownloadCall
    \/ GetS3KeyCall
    \/ UnixMsec2DateCall
    \/ Date2UnixMsecCall
    \/ GetBetweenDatesCall
    \/ GetBetweenDatesLoop

InitTools == ToolsInit /\ HashAtRest /\ ZipAtRest /\ ConcAtRest /\ RevAtRest

SpecTools == InitTools /\ [][ToolsNext]_vars

-----------------------------------------------------------------------------
(* Properties of the sniffers, the fetch and key helpers and the date      *)
(* helpers (SpecTools).                                                    *)

NoSignatureMatches(buf) == \A k \in 1..Len(Matchers) : ~HasPrefixBytes(buf, Matchers[k].magic)

(* C15: when no magic-byte signature matches the buffer,                   *)
(* DetectFileByteType returns the unknown classification with a nil        *)
(* error.                                                                  *)
C15_UnknownIsNotAnError ==
    (tool.op = "DetectFileByteType" /\ NoSignatureMatches(tool.buf)) =>
        /\ tret.extension = "unknown"
        /\ tret.err = "nil"

(* The text after the last '.' of a name, the whole name when it has none. *)
AfterLastDot(name) ==
    LET dots == { k \in 1..Len(name) : name[k] = Dot }
    IN  IF dots = {} THEN name
        ELSE SubSeq(name, (CHOOSE k \in dots : \A j \in dots : j <= k) + 1, Len(name))

(* C16: GetFileExtension answers jpeg, png, gif, pdf for the four MIME     *)
(* values of that name, the text after the last '.' of the uploaded        *)
(* filename for application/octet-stream and application/zip, and the      *)
(* empty string for every other MIME value and when the read failed.       *)
C16_ExtensionByMime ==
    tool.op = "GetFileExtension" =>
        /\ tret.mime = "image/jpeg" => tret.ext = <<"j", "p", "e", "g">>
        /\ tret.mime = "image/png" => tret.ext = <<"p", "n", "g">>
        /\ tret.mime = "image/gif" => tret.ext = <<"g", "i", "f">>
        /\ tret.mime = "application/pdf" => tret.ext = <<"p", "d", "f">>
        /\ tret.mime \in {"application/octet-stream", "application/zip"} =>
               tret.ext = AfterLastDot(tool.filename)
        /\ tret.mime \notin {"image/jpeg", "image/png", "image/gif", "application/pdf",
                             "application/octet-stream", "application/zip"} =>
               tret.ext = NoText
        /\ (tool.read # "nil" \/ tool.content = NoBytes) =>
               (tret.ext = NoText /\ tret.err # "nil")

(* A ZIP upload named a.tar.gz: the extension is gz. *)
C16_Witness ==
    /\ tool.op = "GetFileExtension"
    /\ tret.mime = "application/zip"
    /\ tool.filename = <<"a", ".", "t", "a", "r", ".", "g", "z">>
    /\ tret.ext = <<"g", "z">>

(* C17: FileDownload returns a nil error only when the GET, the creation   *)
(* of the local file and the copy of the whole body all succeeded, and     *)
(* GetS3Key returns no key computed from empty content when the read       *)
(* failed.                                                                 *)
C17_NoErrorSwallowed ==
    /\ (tool.op = "FileDownload" /\ tret.err = "nil") =>
           (tool.get = "nil" /\ tool.create = "nil" /\ tool.copy = "nil"
            /\ tret.saved = "whole")
    /\ (tool.op = "GetS3Key" /\ tool.read # "nil") =>
           tret.key # BuildHashName(Md5Bytes(NoBytes), AfterLastDot(tool.fileName)).hashName

(* um >= 1000 *)
AtLeastOneSecond(um) == ~um.neg /\ (um.day > 0 \/ um.sod >= 1)

(* um - (um mod 1000), for um >= 0 *)
WholeSeconds(um) == Msec(FALSE, um.day, um.sod, 0)

(* C19: with the layout "Y-m-d H:i:s", Date2UnixMsec of what UnixMsec2Date *)
(* wrote for um >= 1000 is um - (um mod 1000); UnixMsec2Date writes "-"    *)
(* when um / 1000 <= 0, and Date2UnixMsec returns 0 for the empty string   *)
(* and for one that does not parse.                                        *)
C19_DateRoundTrip ==
    /\ (tool.op = "Date2UnixMsec" /\ tool.layout = DateTimeLayout) =>
           /\ \A um \in Stamps :
                  (AtLeastOneSecond(um)
                   /\ tool.dateStr = UnixMsec2Date(um, DateTimeLayout, local)) =>
                      tret.ms = WholeSeconds(um)
           /\ tool.dateStr \in {<<>>, <<"t", "o", "m", "o", "r", "r", "o", "w">>, <<"2", "0", "2", "2", "-", "1", "3", "-", "0", "1", " ", "0", "0", ":", "0", "0", ":", "0", "0">>} =>
                  tret.ms = MsecZero
    /\ (tool.op = "UnixMsec2Date" /\ ~AtLeastOneSecond(tool.um)) => tret.str = <<"-">>

(* C20: the ordered find/replace pass rewrites a layout made of one letter *)
(* of the alphabet to exactly that letter's Go reference layout.           *)
C20_NoMisReplacement ==
    (tool.op = "UnixMsec2Date" /\ AtLeastOneSecond(tool.um)) =>
        \A k \in 1..Len(find) : tool.layout = <<find[k]>> => tret.layout = replace[k]

-----------------------------------------------------------------------------
(* Concurrent callers.  Two goroutines each make one call of               *)
(* BuildFileHashName, BuildHashName, ZipDirectory or UnzipAndExtract on     *)
(* files and directories of their own; the file system is what they        *)
(* share.  A call advances one system call at a time: os.MkdirAll is a     *)
(* Mkdir per missing directory, BuildFileHashName a Read per chunk.        *)

Goroutines == {1, 2}

(* Existing directory that holds every caller's input; the directory the   *)
(* destinations lie in does not exist yet.                                 *)
InDir == <<"w">>

OutDir == <<"v">>

OwnPath(dir, stem, g, suffix) == dir \o <<Slash>> \o stem \o Itoa(g) \o suffix

HashJob(g, content) ==
    [op |-> "BuildFileHashName", localFile |-> OwnPath(InDir, <<"f">>, g, <<".", "p", "n", "g">>),
     content |-> content]

NameJob(g) ==
    [op |-> "BuildHashName", fileMd5 |-> <<"a", "b", "c", "d", "e", "f">> \o Itoa(g), suffix |-> <<"p", "n", "g">>]

ZipJob(g, tr) ==
    [op |-> "ZipDirectory", sourceDir |-> OwnPath(InDir, <<"p">>, g, <<>>), tree |-> tr,
     zipFileName |-> OwnPath(InDir, <<"z">>, g, ZipSuffix)]

UnzipJob(g, entries) ==
    [op |-> "UnzipAndExtract", srcZipPath |-> OwnPath(InDir, <<"a">>, g, ZipSuffix),
     entries |-> entries, destDir |-> OwnPath(OutDir, <<"o">>, g, <<>>)]

(* Archives for the concurrent callers: files in and out of a directory,   *)
(* a member that leaves the destination after one that does not, and a     *)
(* file below a name that an earlier member made a file.                   *)
ConcArchives ==
    { << Member(<<"a">>, FALSE, 1), Member(<<"d", "/">>, TRUE, 0), Member(<<"d", "/", "b">>, FALSE, 2) >>,
      << Member(<<"a">>, FALSE, 1), Member(<<".", ".", "/", ".", ".", "/", "e">>, FALSE, 4) >>,
      << Member(<<"a">>, FALSE, 1), Member(<<"a", "/", "b">>, FALSE, 2) >> }

JobsOf(g) ==
    { HashJob(g, content) : content \in { Run(65, 1), Run(65, fileChunk + 1) } }
    \cup { NameJob(g) }
    \cup { ZipJob(g, tr) : tr \in Trees }
    \cup { UnzipJob(g, entries) : entries \in ConcArchives }

RECURSIVE PlantTree(_, _, _, _)
(* The directory tree tr below root, put into file system f. *)
PlantTree(f, root, tr, n) ==
    IF n > Len(tr) THEN f
    ELSE LET path == WalkPath(root, tr[n])
         IN  PlantTree(IF tr[n].isDir THEN MkdirAll(f, path)
                       ELSE WriteFile(f, path, tr[n].data),
                       root, tr, n + 1)

(* The files a call finds: the file to hash, the tree to pack, the         *)
(* archive to unpack (an archive file's data is its members).              *)
WithInputs(f, job) ==
    CASE job.op = "BuildFileHashName" -> WriteFile(f, job.localFile, job.content)
      [] job.op = "BuildHashName" -> f
      [] job.op = "ZipDirectory" -> PlantTree(f, job.sourceDir, job.tree, 1)
      [] job.op = "UnzipAndExtract" -> WriteFile(f, job.srcZipPath, job.entries)

(* The file system before any caller has started. *)
ConcFs0 == WithInputs(WithInputs(MkdirAll(EmptyFs, InDir), cjob[1]), cjob[2])

NoLocals ==
    [idx |-> 0, fpath |-> <<>>, todo |-> <<>>, hash |-> NoBytes, handles |-> {},
     met |-> FALSE]

concOff == <<hashVars, zipVars, toolVars, revVars, cjob>>

(* Another caller is in the middle of its call. *)
Meanwhile(g) == \E h \in Goroutines \ {g} : cpc[h] \notin {"start", "done"}

(* Goroutine g moves to pc2 with locals loc2. *)
Step(g, pc2, loc2) ==
    /\ cpc' = [cpc EXCEPT ![g] = pc2]
    /\ cloc' = [cloc EXCEPT ![g] = [loc2 EXCEPT !.met = @ \/ Meanwhile(g)]]

(* Goroutine g returns r; its deferred Close calls have run. *)
Finish(g, r, loc2) ==
    /\ Step(g, "done", [loc2 EXCEPT !.handles = {}])
    /\ cret' = [cret EXCEPT ![g] = r]

(* The fpath of the first caller, as if fpath were one package-level       *)
(* variable.                                                               *)
FpathShared(locs, g) == locs[1].fpath

(* fpath is a variable of the call. *)
FpathOf(locs, g) == locs[g].fpath

(* BuildHashName(fileMd5, suffix) *)
ConcBuildHashName(g) ==
    /\ cpc[g] = "start"
    /\ cjob[g].op = "BuildHashName"
    /\ LET r == BuildHashName(cjob[g].fileMd5, cjob[g].suffix)
       IN  Finish(g, [hashDir |-> r.hashDir, hashName |-> r.hashName], cloc[g])
    /\ UNCHANGED <<cfs, concOff>>

(* BuildFileHashName: os.Open(localFile), file.Stat(). *)
ConcHashOpen(g) ==
    /\ cpc[g] = "start"
    /\ cjob[g].op = "BuildFileHashName"
    /\ IF IsFileAt(cfs, cjob[g].localFile)
       THEN /\ Step(g, "hashRead", [cloc[g] EXCEPT !.handles = {Handle("file", 0)}])
            /\ UNCHANGED cret
       ELSE Finish(g, [err |-> "open"], cloc[g])
    /\ UNCHANGED <<cfs, concOff>>

(* One iteration of the loop: file.Read(buf), io.WriteString(hash, ...);   *)
(* after the last one the digest, the names and the deferred Close.        *)
ConcHashRead(g) ==
    /\ cpc[g] = "hashRead"
    /\ LET data == cfs[cjob[g].localFile].data
           size == BLen(data)
           k == cloc[g].idx
       IN  IF k < BlockCount(size)
           THEN /\ Step(g, "hashRead",
                        [cloc[g] EXCEPT !.idx = k + 1,
                                        !.hash = BCat(@, BTake(BDrop(data, k * fileChunk),
                                                               BlockSize(size, k)))])
                /\ UNCHANGED cret
           ELSE LET fileMd5 == Md5Hex(cloc[g].hash)
                    r == BuildHashName(fileMd5, GetFileExt(cjob[g].localFile))
                IN  Finish(g, [hashDir |-> r.hashDir, hashName |-> r.hashName,
                               fileMd5 |-> fileMd5, err |-> "nil"], cloc[g])
    /\ UNCHANGED <<cfs, concOff>>

(* ZipDirectory: os.Create(zipFileName), zip.NewWriter. *)
ConcZipCreate(g) ==
    /\ cpc[g] = "start"
    /\ cjob[g].op = "ZipDirectory"
    /\ IF OpenFileOk(cfs, cjob[g].zipFileName)
       THEN /\ cfs' = WriteFile(cfs, cjob[g].zipFileName, <<>>)
            /\ Step(g, "zipWalk", [cloc[g] EXCEPT !.idx = 1,
                                                  !.handles = {Handle("zipFile", 0)}])
            /\ UNCHANGED cret
       ELSE /\ Finish(g, [err |-> "create"], cloc[g])
            /\ UNCHANGED cfs
    /\ UNCHANGED concOff

(* The walk's callback on the next node: a directory is passed over, a     *)
(* file is opened, written to the archive as a member, and closed.         *)
ConcZipVisit(g) ==
    /\ cpc[g] = "zipWalk"
    /\ cloc[g].idx <= Len(cjob[g].tree)
    /\ LET node == cjob[g].tree[cloc[g].idx]
           path == WalkPath(cjob[g].sourceDir, node)
           rel == RelPath(cjob[g].sourceDir, path)
           zip == cjob[g].zipFileName
       IN  IF IsDirAt(cfs, path)
           THEN /\ Step(g, "zipWalk", [cloc[g] EXCEPT !.idx = @ + 1])
                /\ UNCHANGED <<cfs, cret>>
           ELSE /\ cfs' = WriteFile(cfs, zip,
                                    Append(cfs[zip].data,
                                           Member(rel.path, FALSE, cfs[path].data)))
                /\ Step(g, "zipWalk", [cloc[g] EXCEPT !.idx = @ + 1])
                /\ UNCHANGED cret
    /\ UNCHANGED concOff

(* The walk is over: zipWriter.Close(), zipFile.Close(), return err. *)
ConcZipReturn(g) ==
    /\ cpc[g] = "zipWalk"
    /\ cloc[g].idx > Len(cjob[g].tree)
    /\ Finish(g, [err |-> "nil"], cloc[g])
    /\ UNCHANGED <<cfs, concOff>>

(* The directories os.MkdirAll(p) looks at, from the top down. *)
ChainSeq(p) ==
    LET e == Elems(p)
    IN  [j \in 1..Len(e) |-> PathOf(IsRooted(p), SubSeq(e, 1, j))]

ConcFail(g, e) == Finish(g, [dest |-> <<>>, err |-> e], cloc[g])

(* UnzipAndExtract: zip.OpenReader(srcZipPath). *)
ConcUnzipOpen(g) ==
    /\ cpc[g] = "start"
    /\ cjob[g].op = "UnzipAndExtract"
    /\ IF IsFileAt(cfs, cjob[g].srcZipPath)
       THEN /\ Step(g, "unzipCheck", [cloc[g] EXCEPT !.idx = 1,
                                                     !.handles = {Handle("r", 0)}])
            /\ UNCHANGED cret
       ELSE ConcFail(g, "open archive")
    /\ UNCHANGED <<cfs, concOff>>

(* fpath := filepath.Join(destDir, f.Name) and the traversal check. *)
ConcUnzipCheck(g) ==
    /\ cpc[g] = "unzipCheck"
    /\ cloc[g].idx <= Len(cfs[cjob[g].srcZipPath].data)
    /\ LET f == cfs[cjob[g].srcZipPath].data[cloc[g].idx]
           fp == Join(cjob[g].destDir, f.name)
       IN  IF IllegalPath(fp, cjob[g].destDir)
           THEN ConcFail(g, "illegal file path")
           ELSE /\ Step(g, "unzipMkdir",
                        [cloc[g] EXCEPT !.fpath = fp,
                                        !.todo = ChainSeq(IF f.isDir THEN fp ELSE Dir(fp))])
                /\ UNCHANGED cret
    /\ UNCHANGED <<cfs, concOff>>

(* os.MkdirAll, one directory at a time: a directory that exists, made by  *)
(* this call or by another, is passed over; a file in its place is an      *)
(* error.  After the last one a directory member is done and a file        *)
(* member goes on to os.OpenFile.                                          *)
ConcUnzipMkdir(g) ==
    /\ cpc[g] = "unzipMkdir"
    /\ LET f == cfs[cjob[g].srcZipPath].data[cloc[g].idx]
           todo == cloc[g].todo
       IN  IF todo = <<>>
           THEN /\ IF f.isDir
                   THEN Step(g, "unzipCheck", [cloc[g] EXCEPT !.idx = @ + 1])
                   ELSE Step(g, "unzipOpenFile", cloc[g])
                /\ UNCHANGED <<cfs, cret>>
           ELSE IF IsFileAt(cfs, todo[1])
           THEN /\ ConcFail(g, "mkdir")
                /\ UNCHANGED cfs
           ELSE /\ cfs' = MkdirAll(cfs, todo[1])
                /\ Step(g, "unzipMkdir", [cloc[g] EXCEPT !.todo = Tail(todo)])
                /\ UNCHANGED cret
    /\ UNCHANGED concOff

(* outFile, err := os.OpenFile(fpath, O_WRONLY|O_CREATE|O_TRUNC, f.Mode()) *)
ConcUnzipOpenFile(g) ==
    /\ cpc[g] = "unzipOpenFile"
    /\ LET fp == FpathOf(cloc, g)
       IN  IF OpenFileOk(cfs, fp)
           THEN /\ cfs' = WriteFile(cfs, fp, 0)
                /\ Step(g, "unzipCopy",
                        [cloc[g] EXCEPT !.handles = @ \cup {Handle("outFile", cloc[g].idx)}])
                /\ UNCHANGED cret
           ELSE /\ ConcFail(g, "open file")
                /\ UNCHANGED cfs
    /\ UNCHANGED concOff

(* f.Open(), io.Copy(outFile, rc), outFile.Close(), rc.Close() *)
ConcUnzipCopy(g) ==
    /\ cpc[g] = "unzipCopy"
    /\ LET f == cfs[cjob[g].srcZipPath].data[cloc[g].idx]
       IN  /\ cfs' = WriteFile(cfs, FpathOf(cloc, g), f.data)
           /\ Step(g, "unzipCheck",
                   [cloc[g] EXCEPT !.idx = @ + 1, !.handles = Closed(@, "outFile")])
    /\ UNCHANGED <<cret, concOff>>

(* return destDir, nil *)
ConcUnzipReturn(g) ==
    /\ cpc[g] = "unzipCheck"
    /\ cloc[g].idx > Len(cfs[cjob[g].srcZipPath].data)
    /\ Finish(g, [dest |-> cjob[g].destDir, err |-> "nil"], cloc[g])
    /\ UNCHANGED <<cfs, concOff>>

ConcInit ==
    /\ cjob \in [Goroutines -> UNION { JobsOf(g) : g \in Goroutines }]
    /\ \A g \in Goroutines : cjob[g] \in JobsOf(g)
    /\ cfs = ConcFs0
    /\ cpc = [g \in Goroutines |-> "start"]
    /\ cloc = [g \in Goroutines |-> NoLocals]
    /\ cret = [g \in Goroutines |-> [none |-> TRUE]]

ConcNext ==
    \E g \in Goroutines :
        \/ ConcBuildHashName(g)
        \/ ConcHashOpen(g)
        \/ ConcHashRead(g)
        \/ ConcZipCreate(g)
        \/ ConcZipVisit(g)
        \/ ConcZipReturn(g)
        \/ ConcUnzipOpen(g)
        \/ ConcUnzipCheck(g)
        \/ ConcUnzipMkdir(g)
        \/ ConcUnzipOpenFile(g)
        \/ ConcUnzipCopy(g)
        \/ ConcUnzipReturn(g)

InitConc == ConcInit /\ HashAtRest /\ ZipAtRest /\ ToolsAtRest /\ RevAtRest

SpecConc == InitConc /\ [][ConcNext]_vars

-----------------------------------------------------------------------------
(* Properties of concurrent callers (SpecConc). *)

RECURSIVE UnzipAlone(_, _, _, _)
(* UnzipAndExtract run from start to end with nothing else going on: the   *)
(* file system it leaves and what it returns.                              *)
UnzipAlone(f, entries, dest, k) ==
    IF k > Len(entries) THEN [fs |-> f, ret |-> [dest |-> dest, err |-> "nil"]]
    ELSE LET m == entries[k]
             fp == Join(dest, m.name)
             Failed(f1, e) == [fs |-> f1, ret |-> [dest |-> <<>>, err |-> e]]
         IN  IF IllegalPath(fp, dest) THEN Failed(f, "illegal file path")
             ELSE IF m.isDir
             THEN (IF MkdirAllOk(f, fp) THEN UnzipAlone(MkdirAll(f, fp), entries, dest, k + 1)
                   ELSE Failed(f, "mkdir"))
             ELSE IF ~MkdirAllOk(f, Dir(fp)) THEN Failed(f, "mkdir")
             ELSE IF ~OpenFileOk(MkdirAll(f, Dir(fp)), fp)
             THEN Failed(MkdirAll(f, Dir(fp)), "open file")
             ELSE UnzipAlone(WriteFile(MkdirAll(f, Dir(fp)), fp, m.data), entries, dest, k + 1)

RECURSIVE ZipAloneMembers(_, _, _, _)
ZipAloneMembers(f, root, tr, n) ==
    IF n > Len(tr) THEN <<>>
    ELSE (IF tr[n].isDir THEN <<>>
          ELSE <<Member(RelPath(root, WalkPath(root, tr[n])).path, FALSE, tr[n].data)>>)
         \o ZipAloneMembers(f, root, tr, n + 1)

(* A call run alone on file system f. *)
Alone(job, f) ==
    CASE job.op = "BuildHashName" ->
             [fs |-> f,
              ret |-> [hashDir |-> BuildHashName(job.fileMd5, job.suffix).hashDir,
                       hashName |-> BuildHashName(job.fileMd5, job.suffix).hashName]]
      [] job.op = "BuildFileHashName" ->
             LET fileMd5 == Md5Hex(job.content)
                 r == BuildHashName(fileMd5, GetFileExt(job.localFile))
             IN  [fs |-> f,
                  ret |-> [hashDir |-> r.hashDir, hashName |-> r.hashName,
                           fileMd5 |-> fileMd5, err |-> "nil"]]
      [] job.op = "ZipDirectory" ->
             [fs |-> WriteFile(f, job.zipFileName,
                               ZipAloneMembers(f, job.sourceDir, job.tree, 1)),
              ret |-> [err |-> "nil"]]
      [] job.op = "UnzipAndExtract" -> UnzipAlone(f, job.entries, job.destDir, 1)

AloneOf(g) == Alone(cjob[g], ConcFs0)

(* What the call of g, run alone, creates or changes. *)
ChangedBy(g) ==
    { q \in DOMAIN AloneOf(g).fs : q \notin DOMAIN ConcFs0 \/ AloneOf(g).fs[q] # ConcFs0[q] }

AllDone == \A g \in Goroutines : cpc[g] = "done"

(* C18: concurrent calls on disjoint files and directories do not          *)
(* interfere: under every interleaving a call that has returned returned   *)
(* what it returns when run alone, holds no handle, and left the files it  *)
(* leaves when run alone; when all have returned the file system holds     *)
(* those files and nothing else.                                           *)
C18_NoInterference ==
    /\ \A g \in Goroutines :
           cpc[g] = "done" =>
               /\ cret[g] = AloneOf(g).ret
               /\ cloc[g].handles = {}
               /\ \A q \in ChangedBy(g) : q \in DOMAIN cfs /\ cfs[q] = AloneOf(g).fs[q]
    /\ AllDone => DOMAIN cfs = DOMAIN AloneOf(1).fs \cup DOMAIN AloneOf(2).fs

(* Two callers unpacked archives side by side, each taking steps while     *)
(* the other was in the middle of its call, into destinations under a      *)
(* directory neither found in place.                                       *)
C18_Witness ==
    /\ AllDone
    /\ \A g \in Goroutines :
           /\ cjob[g].op = "UnzipAndExtract"
           /\ cloc[g].met
           /\ cret[g].err = "nil"
           /\ IsFileAt(cfs, Join(cjob[g].destDir, <<"d", "/", "b">>))

-----------------------------------------------------------------------------
(* ZipDirectory's return value against the archive it leaves behind. *)

(* C22: ZipDirectory returns nil only when the archive is complete: when   *)
(* the deferred zipWriter.Close() or zipFile.Close() fails after a walk    *)
(* without error, the caller gets that error, not nil.                     *)
C22_NilOnlyWhenComplete ==
    zipRet = "nil" => archive.state = "complete"

-----------------------------------------------------------------------------
(* GetBetweenDates against the calendar. *)

(* The calendar days from the day of sdate to the day of edate, each once, *)
(* in ascending order; no day when a date does not parse or the end is     *)
(* before the start.                                                       *)
DaysBetween(sdate, edate) ==
    LET layout == SubSeq(TimeFormatTpl, 1, Min(Len(sdate), Len(TimeFormatTpl)))
        s == IF Len(sdate) > Len(TimeFormatTpl) THEN Parse(layout, <<>>) ELSE Parse(layout, sdate)
        e == Parse(layout, edate)
    IN  IF ~s.ok \/ ~e.ok \/ Before(e, s) THEN <<>>
        ELSE [k \in 1..(e.day - s.day + 1) |-> FormatDay([day |-> s.day + k - 1, sod |-> 0])]

IsPrefixOf(p, s) == Len(p) <= Len(s) /\ SubSeq(s, 1, Len(p)) = p

(* C21: GetBetweenDates terminates and returns every calendar day from     *)
(* sdate to edate once, in ascending order (one day when sdate = edate),   *)
(* and the empty list when a date does not parse or edate is before        *)
(* sdate: the call does not panic, what it returns is that list, and while *)
(* its loop runs the list built so far is the beginning of that list.      *)
C21_EveryDayOnce ==
    tool.op = "GetBetweenDates" =>
        LET want == DaysBetween(tool.sdate, tool.edate)
        IN  /\ between.pc # "panic"
            /\ between.pc = "returned" => tret = [status |-> "returned", d |-> want]
            /\ between.pc = "loop" => IsPrefixOf(between.d, want)

-----------------------------------------------------------------------------
(* GitRevParseHead and the package variable gitRevParseHead.               *)
(*                                                                         *)
(* The calls follow one another; between any two of their steps the file   *)
(* conf/git-rev-hash may be created, rewritten, removed or made            *)
(* unreadable by someone else.                                             *)

(* const bufferSize = 32 *)
bufferSize == 32

revOff == <<hashVars, zipVars, toolVars, concVars>>

(* What the file holds when it is there: nothing, a short tag, or the      *)
(* forty hexadecimal digits of a revision and a newline.                   *)
RevLine == [k \in 1..41 |-> IF k = 41 THEN "\n" ELSE HexDigits[((k * 7) % 16) + 1]]

RevContents == { <<>>, <<"v", "1">>, RevLine }

(* The path as the file system answers for it: missing (os.Stat fails),    *)
(* there but not to be opened (os.Open fails), a directory (file.Read      *)
(* fails), or a regular file with its content.                             *)
RevFiles ==
    { [state |-> s, content |-> <<>>] : s \in {"missing", "noaccess", "directory"} }
    \cup { [state |-> "file", content |-> c] : c \in RevContents }

NoFile == [state |-> "none", content |-> <<>>]

(* A test that never finds the variable set. *)
CachedNever(v) == FALSE

(* if len(gitRevParseHead) <= 0 { ... }: the body is skipped when the      *)
(* variable holds text.                                                    *)
Cached(v) == ~(Len(v) <= 0)

(* return gitRevParseHead, with the deferred file.Close(): the call is     *)
(* recorded with what it returned, whether it went to the file system,     *)
(* and what the path held when it returned.                                *)
RevReturn(v, touched) ==
    /\ gitRevParseHead' = v
    /\ revCalls' = Append(revCalls, [ret |-> v, touched |-> touched, file |-> revFile])
    /\ revPc' = "idle"
    /\ revOpened' = NoFile

(* Someone else changes the file.                                          *)
RevFileChange ==
    /\ revFile' \in RevFiles \ {revFile}
    /\ UNCHANGED <<revOff, gitRevParseHead, revPc, revOpened, revCalls>>

(* GitRevParseHead(): the test of the variable. *)
GitRevParseHeadCall ==
    /\ revPc = "idle"
    /\ Len(revCalls) < MaxRevCalls
    /\ IF Cached(gitRevParseHead)
       THEN RevReturn(gitRevParseHead, FALSE)
       ELSE /\ revPc' = "stat"
            /\ UNCHANGED <<gitRevParseHead, revOpened, revCalls>>
    /\ UNCHANGED <<revOff, revFile>>

(* _, err := os.Stat(filename) *)
GitRevParseHeadStat ==
    /\ revPc = "stat"
    /\ IF revFile.state = "missing"
       THEN RevReturn(<<"-", "1">>, TRUE)
       ELSE /\ revPc' = "open"
            /\ UNCHANGED <<gitRevParseHead, revOpened, revCalls>>
    /\ UNCHANGED <<revOff, revFile>>

(* file, err := os.Open(filename) *)
GitRevParseHeadOpen ==
    /\ revPc = "open"
    /\ IF revFile.state \in {"missing", "noaccess"}
       THEN RevReturn(<<"-", "2">>, TRUE)
       ELSE /\ revPc' = "read"
            /\ revOpened' = revFile
            /\ UNCHANGED <<gitRevParseHead, revCalls>>
    /\ UNCHANGED <<revOff, revFile>>

(* bytesRead, err := file.Read(buffer): an error (end of file for a file   *)
(* without bytes, a directory, an I/O error) stores "-3"; else the bytes   *)
(* read, between one and bufferSize of them, are stored.  The handle       *)
(* reads what was opened, or what the file was rewritten to meanwhile.     *)
GitRevParseHeadRead ==
    /\ revPc = "read"
    /\ \/ RevReturn(<<"-", "3">>, TRUE)
       \/ \E c \in {revOpened.content} \cup (IF revFile.state = "file" THEN {revFile.content} ELSE {}) :
              /\ revOpened.state = "file"
              /\ c # <<>>
              /\ \E bytesRead \in 1..Min(bufferSize, Len(c)) :
                     RevReturn(SubSeq(c, 1, bytesRead), TRUE)
    /\ UNCHANGED <<revOff, revFile>>

RevInit ==
    /\ gitRevParseHead = <<>>
    /\ revFile \in RevFiles
    /\ revPc = "idle"
    /\ revOpened = NoFile
    /\ revCalls = <<>>

RevNext ==
    \/ RevFileChange
    \/ GitRevParseHeadCall
    \/ GitRevParseHeadStat
    \/ GitRevParseHeadOpen
    \/ GitRevParseHeadRead

InitRev == RevInit /\ HashAtRest /\ ZipAtRest /\ ToolsAtRest /\ ConcAtRest

SpecRev == InitRev /\ [][RevNext]_vars

-----------------------------------------------------------------------------
(* The revision cache. *)

Sentinels == { <<"-", "1">>, <<"-", "2">>, <<"-", "3">> }

(* C23: GitRevParseHead memoizes its first outcome: once a call has        *)
(* returned the variable is not empty, and every later call returns the    *)
(* string the first call returned without going to conf/git-rev-hash,      *)
(* whatever has become of the file; that holds for "-1", "-2" and "-3"     *)
(* as for a revision read.                                                 *)
C23_FirstOutcomeMemoized ==
    revCalls # <<>> =>
        /\ Len(gitRevParseHead) > 0
        /\ gitRevParseHead = revCalls[1].ret
        /\ \A k \in 2..Len(revCalls) :
               /\ revCalls[k].ret = revCalls[1].ret
               /\ ~revCalls[k].touched
        /\ revPc \notin {"stat", "open", "read"}

(* A first call found no file and returned "-1"; a later call was made     *)
(* with a readable revision in place.                                      *)
C23_Witness ==
    /\ Len(revCalls) >= 2
    /\ revCalls[1].ret = <<"-", "1">>
    /\ revCalls[2].file = [state |-> "file", content |-> RevLine]

=============================================================================
